---- MODULE Spec2Model ----
(***************************************************************************)
(* Room registry (RoomManager), game sessions (GameManager) and the socket *)
(* handlers of the server entry point of sayfight.com, as a state machine. *)
(* Times are milliseconds, as in the source.                               *)
(***************************************************************************)
EXTENDS Integers, Sequences, FiniteSets, TLC

(* ------------------------------ bounds -------------------------------- *)

\* rooms ever created
MaxRooms == 2
\* players ever admitted by joinRoom
MaxPlayers == 2
\* game sessions ever created
MaxSessions == 2
\* the clock is observed for MaxClock steps of TimeStep
MaxClock == 2

\* connection (socket) ids
Conns == { 1, 2 }

\* the clock of the runs that follow the rate limiter is observed for
\* MaxShort steps of ShortStep
MaxShort == 4
ShortStep == 30 * 1000

\* half an hour: the amount by which the clock is advanced between events
TimeStep == 30 * 60 * 1000
\* the wall clock when the server starts (any reading past the epoch)
StartTime == 24 * 60 * 60 * 1000

(* ------------------------- program constants -------------------------- *)

ROOM_CREATION_COOLDOWN == 60000
GracePeriod == 30 * 1000
MaxRoomAge == 2 * 60 * 60 * 1000
CleanupInterval == 60 * 60 * 1000
NotifyDelay == 5 * 1000
ScanInterval == 2000
ConnectRetries == 3
RetryDelay == 1000

characters ==
    << "A", "B", "C", "D", "E", "F", "G", "H", "I", "J", "K", "L", "M",
       "N", "O", "P", "Q", "R", "S", "T", "U", "V", "W", "X", "Y", "Z" >>

\* values of Math.floor(Math.random() * characters.length) drawn for one code
RandomDraws == { <<0, 0, 0, 0>>, <<0, 0, 0, 25>> }

GameModes == { "voice_racer", "tug_of_war", "quick_draw" }

\* Text is a sequence of characters. Of RACING_WORDS the model keeps two
\* words; a session is given the pool as Math.random has shuffled it.
wifi == << "w", "i", "f", "i" >>
gravity == << "g", "r", "a", "v", "i", "t", "y" >>
RACING_WORDS == << wifi, gravity >>
Shuffles == { << wifi, gravity >>, << gravity, wifi >> }
OneShuffle == { << wifi, gravity >> }

\* Game numbers are fixed-point: rope positions and match scores in tenths,
\* racer speeds and positions in millionths.
Scores == { 8, 10, 15, 20 }
BASE_PULL_FORCE == 30
RopeLimit == 1000
RopeWin == 800
trackLength == 100 * 1000000
SlowSpeed == 15000
SlowBoost == 60000
FastBoost == 40000
SpeedCap == 150000
StopSpeed == 1000

\* pending delayed starts and countdowns ever scheduled
MaxTimers == 2
MaxMoves == 2
\* firings of the 2-second scan
MaxScans == 5

(* ------------------------------ state --------------------------------- *)

VARIABLES
    rooms,               \* RoomManager.rooms: code -> Room
    playerToRoom,        \* RoomManager.playerToRoom: socket id -> code
    roomCreationLimiter, \* ip -> time of the last accepted createRoom
    games,               \* GameManager.games: code -> session
    gameLoops,           \* GameManager.gameLoops: code -> interval id
    loops,               \* tick intervals that have not been cleared
    countdowns,          \* countdown intervals that have not been cleared
    readyTimers,         \* pending 500 ms delayed starts
    closed,              \* sockets that have disconnected
    now,                 \* wall clock
    nextCleanup,         \* when the hourly sweep fires next
    ids,                 \* allocation counters: rooms, players, sessions, loops
    crashed,             \* an error escaped a timer callback
    hostGone,            \* history: code -> [at, back, told]: when the host
                         \* socket of the room disconnected, whether a
                         \* reconnectRoom has been accepted since, and how
                         \* often 'hostDisconnected' has been emitted since
    last,                \* history: the last handler run and what it reported
    sessions,            \* TranscriptionManager.sessions: player id -> session
    connecting,          \* createSession calls that have not returned yet
    closing,             \* player ids with an endSession call awaiting close()
    gameEnds,            \* history: session id -> 'gameEnd' events emitted for it
    boundTo              \* history: id of a player in a room -> socket of its
                         \* last joinRoom or reconnectPlayer

vars == << rooms, playerToRoom, roomCreationLimiter, games, gameLoops, loops,
           countdowns, readyTimers, closed, now, nextCleanup, ids, crashed,
           hostGone, last, sessions, connecting, closing, gameEnds,
          boundTo >>

sttVars == << sessions, connecting, closing >>

gameVars == << games, gameLoops, loops, countdowns, readyTimers, gameEnds >>

(* ----------------------------- helpers -------------------------------- *)

Put(f, k, v) == [x \in DOMAIN f \cup {k} |-> IF x = k THEN v ELSE f[x]]

Del(f, k) == [x \in DOMAIN f \ {k} |-> f[x]]

DelAll(f, ks) == [x \in DOMAIN f \ ks |-> f[x]]

Empty == [x \in {} |-> x]

Range(s) == { s[i] : i \in DOMAIN s }

\* Map.get on the players map: the index of the entry with this key, 0 if none
IndexOfId(players, pid) ==
    IF \E i \in DOMAIN players : players[i].id = pid
    THEN CHOOSE i \in DOMAIN players : players[i].id = pid
    ELSE 0

\* first entry, in insertion order, whose socketId is the given one; 0 if none
FirstWithSocket(players, socketId) ==
    IF \E i \in DOMAIN players : players[i].socketId = socketId
    THEN CHOOSE i \in DOMAIN players :
            /\ players[i].socketId = socketId
            /\ \A j \in DOMAIN players : players[j].socketId = socketId => i <= j
    ELSE 0

\* Map.delete on the players map: the other entries keep their order
RemoveAt(players, i) ==
    [j \in 1..(Len(players) - 1) |-> IF j < i THEN players[j] ELSE players[j + 1]]

PlayerIdsOf(room) == { room.players[i].id : i \in DOMAIN room.players }

\* socket.handshake.address: every socket comes from an address of its own
IpOf(conn) == conn

(* ---------------------------- RoomManager ----------------------------- *)

CodeOf(draw) == [i \in 1..4 |-> characters[draw[i] + 1]]

\* the room codes a client may send
AllCodes == { CodeOf(d) : d \in RandomDraws }

\* variant: the first code drawn is returned, taken or not
generateRoomCode_once(draws) == { CodeOf(d) : d \in draws }

\* the codes the do-while loop can return when Math.random yields one of
\* draws: those not in the registry
generateRoomCode(draws) == { CodeOf(d) : d \in draws } \ DOMAIN rooms

createRoom(code, hostSocketId) ==
    Put(rooms, code,
        [ code |-> code,
          hostSocketId |-> hostSocketId,
          players |-> << >>,
          gameState |-> "waiting",
          createdAt |-> now,
          hostDisconnectedAt |-> << >>,
          readyPlayers |-> Empty,
          rid |-> ids.room ])

\* variant: the room's gameState is not looked at
joinRoom_anyStatus(roomCode, player) ==
    IF roomCode \notin DOMAIN rooms
    THEN [ok |-> FALSE, rooms |-> rooms, playerToRoom |-> playerToRoom]
    ELSE [ok |-> TRUE,
          rooms |-> [rooms EXCEPT ![roomCode].players = Append(@, player)],
          playerToRoom |-> Put(playerToRoom, player.socketId, roomCode)]

\* returns [ok, rooms, playerToRoom]
joinRoom(roomCode, player) ==
    IF roomCode \notin DOMAIN rooms \/ rooms[roomCode].gameState # "waiting"
    THEN [ok |-> FALSE, rooms |-> rooms, playerToRoom |-> playerToRoom]
    ELSE [ok |-> TRUE,
          rooms |-> [rooms EXCEPT ![roomCode].players = Append(@, player)],
          playerToRoom |-> Put(playerToRoom, player.socketId, roomCode)]

\* returns [result, roomCode, playerId, rooms, playerToRoom];
\* result is "null", "host" (isHost: true) or "player"
leaveRoom(socketId) ==
    IF socketId \notin DOMAIN playerToRoom
    THEN [result |-> "null", roomCode |-> << >>, playerId |-> 0,
          rooms |-> rooms, playerToRoom |-> playerToRoom]
    ELSE
    LET roomCode == playerToRoom[socketId] IN
    IF roomCode \notin DOMAIN rooms
    THEN [result |-> "null", roomCode |-> << >>, playerId |-> 0,
          rooms |-> rooms, playerToRoom |-> playerToRoom]
    ELSE
    LET room == rooms[roomCode]
        i == FirstWithSocket(room.players, socketId)
        playerId == IF i = 0 THEN 0 ELSE room.players[i].id
        marked == IF i = 0 THEN room
                  ELSE [room EXCEPT !.players[i].connected = FALSE]
        bindings == Del(playerToRoom, socketId)
    IN  IF room.hostSocketId = socketId
        THEN [result |-> "host", roomCode |-> roomCode, playerId |-> 0,
              rooms |-> [rooms EXCEPT ![roomCode] =
                            [marked EXCEPT !.hostDisconnectedAt = <<now>>]],
              playerToRoom |-> bindings]
        ELSE [result |-> IF playerId # 0 THEN "player" ELSE "null",
              roomCode |-> roomCode, playerId |-> playerId,
              rooms |-> [rooms EXCEPT ![roomCode] = marked],
              playerToRoom |-> bindings]

\* RoomManager.startGame: returns [ok, rooms]
rmStartGame(roomCode, rs) ==
    IF roomCode \notin DOMAIN rs \/ Len(rs[roomCode].players) < 1
    THEN [ok |-> FALSE, rooms |-> rs]
    ELSE [ok |-> TRUE, rooms |-> [rs EXCEPT ![roomCode].gameState = "playing"]]

resetRoom(roomCode, rs) ==
    IF roomCode \notin DOMAIN rs THEN rs
    ELSE [rs EXCEPT ![roomCode].gameState = "waiting",
                    ![roomCode].readyPlayers = Empty]

\* variant: a host that has been away for longer than the grace period is
\* turned down
reconnectHost_grace(roomCode, newSocketId) ==
    IF \/ roomCode \notin DOMAIN rooms
       \/ /\ rooms[roomCode].hostDisconnectedAt # << >>
          /\ rooms[roomCode].hostDisconnectedAt[1] < now - GracePeriod
    THEN [ok |-> FALSE, rooms |-> rooms]
    ELSE [ok |-> TRUE,
          rooms |-> [rooms EXCEPT ![roomCode].hostSocketId = newSocketId,
                                  ![roomCode].hostDisconnectedAt = << >>]]

\* returns [ok, rooms]; ok = FALSE is the null return
reconnectHost(roomCode, newSocketId) ==
    IF roomCode \notin DOMAIN rooms
    THEN [ok |-> FALSE, rooms |-> rooms]
    ELSE [ok |-> TRUE,
          rooms |-> [rooms EXCEPT ![roomCode].hostSocketId = newSocketId,
                                  ![roomCode].hostDisconnectedAt = << >>]]

\* variant: the player keeps the socket id it joined with
reconnectPlayer_keepSocket(roomCode, playerId, newSocketId) ==
    IF roomCode \notin DOMAIN rooms
    THEN [ok |-> FALSE, rooms |-> rooms, playerToRoom |-> playerToRoom]
    ELSE
    LET i == IndexOfId(rooms[roomCode].players, playerId) IN
    IF i = 0
    THEN [ok |-> FALSE, rooms |-> rooms, playerToRoom |-> playerToRoom]
    ELSE [ok |-> TRUE,
          rooms |-> [rooms EXCEPT ![roomCode].players[i].connected = TRUE],
          playerToRoom |-> Put(playerToRoom, newSocketId, roomCode)]

\* returns [ok, rooms, playerToRoom]
reconnectPlayer(roomCode, playerId, newSocketId) ==
    IF roomCode \notin DOMAIN rooms
    THEN [ok |-> FALSE, rooms |-> rooms, playerToRoom |-> playerToRoom]
    ELSE
    LET i == IndexOfId(rooms[roomCode].players, playerId) IN
    IF i = 0
    THEN [ok |-> FALSE, rooms |-> rooms, playerToRoom |-> playerToRoom]
    ELSE [ok |-> TRUE,
          rooms |-> [rooms EXCEPT ![roomCode].players[i].socketId = newSocketId,
                                  ![roomCode].players[i].connected = TRUE],
          playerToRoom |-> Put(playerToRoom, newSocketId, roomCode)]

\* whether the sweep deletes this room
Expired(room) ==
    \/ room.createdAt < now - MaxRoomAge
    \/ /\ room.hostDisconnectedAt # << >>
       /\ room.hostDisconnectedAt[1] < now - GracePeriod

\* returns [rooms, playerToRoom]
cleanupOldRooms ==
    LET gone == { c \in DOMAIN rooms : Expired(rooms[c]) }
        sockets == UNION { { rooms[c].players[i].socketId :
                                i \in DOMAIN rooms[c].players } : c \in gone }
    IN  [rooms |-> DelAll(rooms, gone),
         playerToRoom |-> DelAll(playerToRoom, sockets)]

\* returns [ok, rooms, playerToRoom]
removePlayer(roomCode, playerId, rs) ==
    IF roomCode \notin DOMAIN rs
    THEN [ok |-> FALSE, rooms |-> rs, playerToRoom |-> playerToRoom]
    ELSE
    LET i == IndexOfId(rs[roomCode].players, playerId) IN
    IF i = 0
    THEN [ok |-> FALSE, rooms |-> rs, playerToRoom |-> playerToRoom]
    ELSE [ok |-> TRUE,
          rooms |-> [rs EXCEPT ![roomCode].players = RemoveAt(@, i)],
          playerToRoom |-> Del(playerToRoom, rs[roomCode].players[i].socketId)]

(* ---------------------------- GameManager ----------------------------- *)

\* A value G below is the part of the state a GameManager call can touch:
\* [games, gameLoops, loops, rooms, ended]; rooms is there because the
\* 'gameEnd' listener runs synchronously inside endGame, and ended counts the
\* 'gameEnd' events emitted during the call.

CurrentG ==
    [games |-> games, gameLoops |-> gameLoops, loops |-> loops,
     rooms |-> rooms, ended |-> 0]

stopGameLoop(roomCode, G) ==
    IF roomCode \in DOMAIN G.gameLoops
    THEN [G EXCEPT !.loops = { l \in @ : l.lid # G.gameLoops[roomCode] },
                   !.gameLoops = Del(@, roomCode)]
    ELSE G

\* gameManager.on('gameEnd'): the room, if still registered, becomes finished
onGameEnd(roomCode, rs) ==
    IF roomCode \in DOMAIN rs
    THEN [rs EXCEPT ![roomCode].gameState = "finished"]
    ELSE rs

endGame(roomCode, G) ==
    LET S == stopGameLoop(roomCode, G) IN
    IF roomCode \in DOMAIN S.games
    THEN [S EXCEPT !.rooms = onGameEnd(roomCode, @),
                   !.games = Del(@, roomCode),
                   !.ended = @ + 1]
    ELSE S

\* createVoiceRacerGame / createTugOfWarGame: TRUE when the constructor for
\* this mode returns a session for n players, FALSE when createGame throws
CanCreate(mode, n) ==
    \/ mode = "voice_racer"
    \/ mode = "tug_of_war" /\ n % 2 = 0

\* variant: wordIndex is not advanced
WordAt_first(words, i) == words[1]

\* the word of the i-th player: availableWords[wordIndex % length]
WordAt(words, i) == words[((i - 1) % Len(words)) + 1]

\* variant: the players go to the teams in turn, red first
NewSession_inTurn(mode, players, words) ==
    LET order == [i \in DOMAIN players |-> players[i].id]
        idset == Range(order)
        midpoint == Len(players) \div 2
        racer == mode = "voice_racer"
    IN  [ sid |-> ids.session,
          mode |-> mode,
          status |-> "waiting",
          order |-> order,
          playerWords |-> [id \in idset |->
                             WordAt(words, CHOOSE i \in DOMAIN order : order[i] = id)],
          playerPositions |-> IF racer THEN [id \in idset |-> 0] ELSE Empty,
          playerSpeeds |-> IF racer THEN [id \in idset |-> 0] ELSE Empty,
          red |-> IF racer THEN << >>
                  ELSE [k \in 1..midpoint |-> order[2 * k - 1]],
          blue |-> IF racer THEN << >>
                   ELSE [k \in 1..midpoint |-> order[2 * k]],
          ropePosition |-> 0,
          winner |-> << >> ]

\* createVoiceRacerGame / createTugOfWarGame: the session built for the
\* players (in iteration order) of a room. The fields of the other mode are
\* kept at their neutral values: a racer session has empty teams and a rope
\* at 0, a tug-of-war session has no positions or speeds.
NewSession(mode, players, words) ==
    LET order == [i \in DOMAIN players |-> players[i].id]
        idset == Range(order)
        midpoint == Len(players) \div 2
        racer == mode = "voice_racer"
    IN  [ sid |-> ids.session,
          mode |-> mode,
          status |-> "waiting",
          order |-> order,
          playerWords |-> [id \in idset |->
                             WordAt(words, CHOOSE i \in DOMAIN order : order[i] = id)],
          playerPositions |-> IF racer THEN [id \in idset |-> 0] ELSE Empty,
          playerSpeeds |-> IF racer THEN [id \in idset |-> 0] ELSE Empty,
          red |-> IF racer THEN << >> ELSE SubSeq(order, 1, midpoint),
          blue |-> IF racer THEN << >> ELSE SubSeq(order, midpoint + 1, Len(order)),
          ropePosition |-> 0,
          winner |-> << >> ]

\* variant: the new session overwrites the previous one without ending it
createGame_overwrite(roomCode, mode, words, G) ==
    LET n == Len(G.rooms[roomCode].players)
    IN  IF CanCreate(mode, n)
        THEN [threw |-> FALSE,
              G |-> [G EXCEPT !.games =
                        Put(@, roomCode,
                            NewSession(mode, G.rooms[roomCode].players, words))]]
        ELSE [threw |-> TRUE, G |-> G]

\* returns [threw, G]; the previous session is ended before anything else
createGame(roomCode, mode, words, G) ==
    LET S == endGame(roomCode, G)
        n == Len(S.rooms[roomCode].players)
    IN  IF CanCreate(mode, n)
        THEN [threw |-> FALSE,
              G |-> [S EXCEPT !.games =
                        Put(@, roomCode,
                            NewSession(mode, S.rooms[roomCode].players, words))]]
        ELSE [threw |-> TRUE, G |-> S]

\* gameEnds after a GameManager call that emitted n 'gameEnd' events for the
\* session the room had when the call was made (0: the room had none)
Emitted(roomCode, n) ==
    IF n > 0
    THEN LET sid == IF roomCode \in DOMAIN games THEN games[roomCode].sid ELSE 0
             sofar == IF sid \in DOMAIN gameEnds THEN gameEnds[sid] ELSE 0
         IN  Put(gameEnds, sid, sofar + n)
    ELSE gameEnds

(* --------------------------- socket handlers -------------------------- *)

\* what a handler that answered or changed something leaves in last
Report(op, res) == [op |-> op, res |-> res]

\* whether the socket has left a trace in the state
Used(conn) ==
    \/ conn \in closed
    \/ conn \in DOMAIN playerToRoom
    \/ IpOf(conn) \in DOMAIN roomCreationLimiter
    \/ \E c \in DOMAIN rooms :
          \/ rooms[c].hostSocketId = conn
          \/ \E i \in DOMAIN rooms[c].players : rooms[c].players[i].socketId = conn

\* A connected socket of a running server. Socket ids are opaque and handed
\* out in order: of the sockets that have done nothing yet only the lowest
\* is considered.
Alive(conn) ==
    /\ ~crashed
    /\ conn \notin closed
    /\ \A c \in Conns : c < conn => Used(c)

(* ------------------------ TranscriptionManager ------------------------ *)

\* A value T below is the part of the state a TranscriptionManager call can
\* touch: [sessions, connecting, closing]. A session is registered before
\* its transcriber connects; connecting holds, for every createSession that
\* has not returned, the player, the attempts left and whether the call sits
\* in the wait between two attempts.

\* the sessions of players that joined some time ago: every player of every
\* room has one, and its transcriber is connected
Established(rs) ==
    [pid \in UNION { PlayerIdsOf(rs[c]) : c \in DOMAIN rs } |->
        [isConnected |-> TRUE]]

\* the socket each player of each room was given by joinRoom
Bound(rs) ==
    [pid \in UNION { PlayerIdsOf(rs[c]) : c \in DOMAIN rs } |->
        LET c == CHOOSE c \in DOMAIN rs : pid \in PlayerIdsOf(rs[c])
        IN  rs[c].players[IndexOfId(rs[c].players, pid)].socketId]

\* boundTo without the players that are in no room of rs any more
Forget(b, rs) ==
    [pid \in DOMAIN b \cap UNION { PlayerIdsOf(rs[c]) : c \in DOMAIN rs } |-> b[pid]]

CurrentT ==
    [sessions |-> sessions, connecting |-> connecting, closing |-> closing]

\* createSession up to its first await
createSession(playerId, T) ==
    IF playerId \in DOMAIN T.sessions
    THEN T
    ELSE [T EXCEPT !.sessions = Put(@, playerId, [isConnected |-> FALSE]),
                   !.connecting = Append(@, [playerId |-> playerId,
                                             retries |-> ConnectRetries,
                                             waiting |-> FALSE])]

\* endSession up to its await: calls for a player made while one is pending
\* wait for the close() of the same transcriber
endSession(playerId, T) ==
    IF playerId \in DOMAIN T.sessions
    THEN [T EXCEPT !.closing = @ \cup {playerId}]
    ELSE T

\* socket.on('createRoom')
CreateRoom(conn, draws) ==
    /\ Alive(conn)
    /\ LET ip == IpOf(conn)
           lastCreation == IF ip \in DOMAIN roomCreationLimiter
                           THEN roomCreationLimiter[ip] ELSE 0
       IN  IF now - lastCreation < ROOM_CREATION_COOLDOWN
           THEN /\ last' = Report("createRoom", "wait")
                /\ UNCHANGED << rooms, roomCreationLimiter, ids, hostGone >>
           ELSE \E code \in generateRoomCode(draws) :
                /\ ids.room <= MaxRooms
                /\ roomCreationLimiter' = Put(roomCreationLimiter, ip, now)
                /\ rooms' = createRoom(code, conn)
                /\ ids' = [ids EXCEPT !.room = @ + 1]
                /\ hostGone' = Del(hostGone, code)
                /\ last' = Report("createRoom", "roomCreated")
    /\ UNCHANGED << boundTo, sttVars, playerToRoom, gameVars, closed, now, nextCleanup, crashed >>

\* socket.on('reconnectRoom')
ReconnectRoom(conn, roomCode) ==
    /\ Alive(conn)
    /\ LET r == reconnectHost(roomCode, conn) IN
        /\ rooms' = r.rooms
        /\ hostGone' = IF r.ok /\ roomCode \in DOMAIN hostGone
                       THEN [hostGone EXCEPT ![roomCode].back = TRUE]
                       ELSE hostGone
        /\ last' = Report("reconnectRoom", IF r.ok THEN "roomReconnected" ELSE "roomNotFound")
    /\ UNCHANGED << boundTo, sttVars, playerToRoom, roomCreationLimiter, gameVars, closed, now,
                    nextCleanup, ids, crashed >>

\* socket.on('reconnectPlayer')
ReconnectPlayer(conn, roomCode, playerId) ==
    /\ Alive(conn)
    /\ LET r == reconnectPlayer(roomCode, playerId, conn) IN
        /\ rooms' = r.rooms
        /\ playerToRoom' = r.playerToRoom
        /\ last' = Report("reconnectPlayer", IF r.ok THEN "playerReconnected" ELSE "reconnectFailed")
        /\ boundTo' = IF r.ok THEN Put(boundTo, playerId, conn) ELSE boundTo
        /\ LET T == IF r.ok THEN createSession(playerId, CurrentT)
                    ELSE CurrentT
           IN  /\ sessions' = T.sessions
               /\ connecting' = T.connecting
    /\ UNCHANGED << roomCreationLimiter, gameVars, closed, now, nextCleanup,
                    ids, crashed, hostGone, closing >>

\* socket.on('joinRoom')
JoinRoom(conn, roomCode) ==
    /\ Alive(conn)
    /\ LET player == [id |-> ids.player, socketId |-> conn, connected |-> TRUE]
           r == joinRoom(roomCode, player)
       IN
        /\ r.ok => ids.player <= MaxPlayers
        /\ rooms' = r.rooms
        /\ playerToRoom' = r.playerToRoom
        /\ ids' = IF r.ok THEN [ids EXCEPT !.player = @ + 1] ELSE ids
        /\ last' = Report("joinRoom", IF r.ok THEN "joinedRoom" ELSE "error")
        /\ boundTo' = IF r.ok THEN Put(boundTo, player.id, conn) ELSE boundTo
        /\ LET T == IF r.ok THEN createSession(player.id, CurrentT)
                    ELSE CurrentT
           IN  /\ sessions' = T.sessions
               /\ connecting' = T.connecting
    /\ UNCHANGED << roomCreationLimiter, gameVars, closed, now, nextCleanup,
                    crashed, hostGone, closing >>

\* socket.on('startGame')
StartGame(conn, roomCode, gameMode, words) ==
    /\ Alive(conn)
    /\ ids.session <= MaxSessions
    /\ IF roomCode \in DOMAIN rooms /\ rooms[roomCode].hostSocketId = conn
       THEN LET rs0 == IF rooms[roomCode].gameState = "finished"
                       THEN resetRoom(roomCode, rooms) ELSE rooms
                started == rmStartGame(roomCode, rs0)
            IN  IF started.ok
                THEN LET rs1 == [started.rooms EXCEPT
                                    ![roomCode].gameState = "preparing",
                                    ![roomCode].readyPlayers = Empty]
                         c == createGame(roomCode, gameMode, words,
                                         [CurrentG EXCEPT !.rooms = rs1])
                     IN /\ rooms' = c.G.rooms
                        /\ games' = c.G.games
                        /\ gameLoops' = c.G.gameLoops
                        /\ loops' = c.G.loops
                        /\ gameEnds' = Emitted(roomCode, c.G.ended)
                        /\ ids' = IF c.threw THEN ids
                                  ELSE [ids EXCEPT !.session = @ + 1]
                        /\ last' = Report("startGame", IF c.threw THEN "error: Failed to create game"
                                          ELSE "gameStarted")
                ELSE /\ rooms' = started.rooms
                     /\ last' = Report("startGame", "error: Need at least 1 player")
                     /\ UNCHANGED << games, gameLoops, loops, ids, gameEnds >>
       ELSE UNCHANGED << rooms, games, gameLoops, loops, ids, last, gameEnds >>
    /\ UNCHANGED << boundTo, sttVars, playerToRoom, roomCreationLimiter, countdowns, readyTimers,
                    closed, now, nextCleanup, crashed, hostGone >>

\* socket.on('returnToLobby')
ReturnToLobby(conn, roomCode) ==
    /\ Alive(conn)
    /\ IF roomCode \in DOMAIN rooms /\ rooms[roomCode].hostSocketId = conn
       THEN LET G == endGame(roomCode,
                        [CurrentG EXCEPT !.rooms[roomCode].gameState = "waiting"])
            IN  /\ rooms' = G.rooms
                /\ games' = G.games
                /\ gameLoops' = G.gameLoops
                /\ loops' = G.loops
                /\ gameEnds' = Emitted(roomCode, G.ended)
                /\ last' = Report("returnToLobby", "returnedToLobby")
       ELSE UNCHANGED << rooms, games, gameLoops, loops, last, gameEnds >>
    /\ UNCHANGED << boundTo, sttVars, playerToRoom, roomCreationLimiter, countdowns, readyTimers,
                    closed, now, nextCleanup, ids, crashed, hostGone >>

\* variant: one ready player is enough
AllReady_some(room) ==
    \E pid \in PlayerIdsOf(room) :
        pid \in DOMAIN room.readyPlayers /\ room.readyPlayers[pid].ready

\* every current player id has ready === true in readyPlayers
AllReady(room) ==
    \A pid \in PlayerIdsOf(room) :
        pid \in DOMAIN room.readyPlayers /\ room.readyPlayers[pid].ready

\* socket.on('playerReady')
PlayerReady(conn, roomCode, playerId, hasMic) ==
    /\ Alive(conn)
    /\ IF roomCode \in DOMAIN rooms /\ playerId \in PlayerIdsOf(rooms[roomCode])
       THEN LET room == [rooms[roomCode] EXCEPT !.readyPlayers =
                            Put(@, playerId, [ready |-> TRUE, hasMic |-> hasMic])]
                fire == /\ room.gameState = "preparing"
                        /\ AllReady(room)
                        /\ Len(room.players) > 0
            IN  /\ fire => ids.timer <= MaxTimers
                /\ rooms' = [rooms EXCEPT ![roomCode] = room]
                /\ readyTimers' =
                      IF fire
                      THEN Append(readyTimers, [code |-> roomCode, rid |-> room.rid])
                      ELSE readyTimers
                /\ ids' = IF fire THEN [ids EXCEPT !.timer = @ + 1] ELSE ids
                /\ last' = Report("playerReady", IF fire THEN "allPlayersReady"
                                  ELSE "playerReadyStatus")
       ELSE UNCHANGED << rooms, readyTimers, ids, last >>
    /\ UNCHANGED << boundTo, sttVars, gameEnds, playerToRoom, roomCreationLimiter, games, gameLoops, loops,
                    countdowns, closed, now, nextCleanup, crashed, hostGone >>

\* socket.on('playerNotReady')
PlayerNotReady(conn, roomCode, playerId) ==
    /\ Alive(conn)
    /\ IF roomCode \in DOMAIN rooms
       THEN /\ rooms' = [rooms EXCEPT ![roomCode].readyPlayers =
                            Put(@, playerId, [ready |-> FALSE, hasMic |-> FALSE])]
            /\ last' = Report("playerNotReady", "playerReadyStatus")
       ELSE UNCHANGED << rooms, last >>
    /\ UNCHANGED << boundTo, sttVars, playerToRoom, roomCreationLimiter, gameVars, closed, now,
                    nextCleanup, ids, crashed, hostGone >>

\* socket.on('removePlayer')
RemovePlayer(conn, roomCode, playerId) ==
    /\ Alive(conn)
    /\ IF /\ roomCode \in DOMAIN rooms
          /\ rooms[roomCode].hostSocketId = conn
          /\ playerId \in PlayerIdsOf(rooms[roomCode])
       THEN LET r == removePlayer(roomCode, playerId,
                        [rooms EXCEPT ![roomCode].readyPlayers = Del(@, playerId)])
            IN  /\ rooms' = r.rooms
                /\ playerToRoom' = r.playerToRoom
                /\ last' = Report("removePlayer", "playerRemoved")
                /\ closing' = endSession(playerId, CurrentT).closing
       ELSE UNCHANGED << rooms, playerToRoom, last, closing >>
    /\ boundTo' = Forget(boundTo, rooms')
    /\ UNCHANGED << roomCreationLimiter, gameVars, closed, now, nextCleanup,
                    ids, crashed, hostGone, sessions, connecting >>

\* what the 'leaveRoom' and 'disconnect' listeners do with leaveRoom's
\* result: a player that left loses its readyPlayers entry
AfterLeave(r) ==
    IF /\ r.result = "player"
       /\ r.roomCode \in DOMAIN r.rooms
    THEN [r.rooms EXCEPT ![r.roomCode].readyPlayers = Del(@, r.playerId)]
    ELSE r.rooms

\* and its transcription session is ended
ClosingAfterLeave(r) ==
    IF /\ r.result = "player"
       /\ r.roomCode \in DOMAIN r.rooms
    THEN endSession(r.playerId, CurrentT).closing
    ELSE closing

LeftReport(r) ==
    CASE r.result = "host" -> "host left"
      [] r.result = "player" -> "player left"
      [] OTHER -> "none"

\* socket.on('leaveRoom')
LeaveRoom(conn) ==
    /\ Alive(conn)
    /\ LET r == leaveRoom(conn) IN
        /\ rooms' = AfterLeave(r)
        /\ playerToRoom' = r.playerToRoom
        /\ last' = Report("leaveRoom", LeftReport(r))
        /\ closing' = ClosingAfterLeave(r)
    /\ UNCHANGED << boundTo, roomCreationLimiter, gameVars, closed, now, nextCleanup,
                    ids, crashed, hostGone, sessions, connecting >>

\* socket.on('disconnect')
Disconnect(conn) ==
    /\ Alive(conn)
    /\ LET r == leaveRoom(conn) IN
        /\ rooms' = AfterLeave(r)
        /\ playerToRoom' = r.playerToRoom
        /\ last' = Report("disconnect", LeftReport(r))
        /\ closing' = ClosingAfterLeave(r)
    /\ closed' = closed \cup {conn}
    /\ hostGone' = [c \in DOMAIN hostGone \cup
                          { c \in DOMAIN rooms : rooms[c].hostSocketId = conn } |->
                      IF c \in DOMAIN rooms /\ rooms[c].hostSocketId = conn
                      THEN [at |-> now, back |-> FALSE, told |-> 0]
                      ELSE hostGone[c]]
    /\ UNCHANGED << boundTo, roomCreationLimiter, gameVars, now, nextCleanup, ids,
                    crashed, sessions, connecting >>

(* ------------------------------ timers -------------------------------- *)

\* GameManager.startGame, called from the delayed start: returns
\* [threw, games, countdowns]
gmStartGame(roomCode) ==
    IF roomCode \notin DOMAIN games
    THEN [threw |-> TRUE, games |-> games, countdowns |-> countdowns]
    ELSE [threw |-> FALSE,
          games |-> [games EXCEPT ![roomCode].status = "countdown"],
          countdowns |-> Append(countdowns,
                                [code |-> roomCode, sid |-> games[roomCode].sid,
                                 count |-> 3])]

\* the setTimeout callback of 'playerReady'; the callbacks run in the order
\* in which they were scheduled, and hold the Room object they were given
DelayedStart ==
    /\ ~crashed
    /\ readyTimers # << >>
    /\ LET t == Head(readyTimers)
           g == gmStartGame(t.code)
       IN
        /\ rooms' = IF t.code \in DOMAIN rooms /\ rooms[t.code].rid = t.rid
                    THEN [rooms EXCEPT ![t.code].gameState = "playing"]
                    ELSE rooms
        /\ games' = g.games
        /\ countdowns' = g.countdowns
        /\ crashed' = g.threw
        /\ last' = Report("delayedStart", IF g.threw THEN "throw: No game found" ELSE "countdown")
    /\ readyTimers' = Tail(readyTimers)
    /\ UNCHANGED << boundTo, sttVars, gameEnds, playerToRoom, roomCreationLimiter, gameLoops, loops, closed,
                    now, nextCleanup, ids, hostGone >>

CountName(n) == << "count 0", "count 1", "count 2", "count 3" >>[n + 1]

\* startGameLoop: a new interval is registered under the room code
startGameLoop(roomCode) ==
    [loops |-> loops \cup { [lid |-> ids.loop, code |-> roomCode] },
     gameLoops |-> Put(gameLoops, roomCode, ids.loop)]

\* one firing of a countdown interval; intervals of the same period fire in
\* turn, and each holds the session object it was started for
CountdownFire ==
    /\ ~crashed
    /\ countdowns # << >>
    /\ LET cd == Head(countdowns)
           done == cd.count - 1 < 0
           live == cd.code \in DOMAIN games /\ games[cd.code].sid = cd.sid
           L == startGameLoop(cd.code)
       IN
        /\ countdowns' = IF done THEN Tail(countdowns)
                         ELSE Append(Tail(countdowns), [cd EXCEPT !.count = @ - 1])
        /\ games' = IF done /\ live
                    THEN [games EXCEPT ![cd.code].status = "playing"]
                    ELSE games
        /\ loops' = IF done THEN L.loops ELSE loops
        /\ gameLoops' = IF done THEN L.gameLoops ELSE gameLoops
        /\ ids' = IF done THEN [ids EXCEPT !.loop = @ + 1] ELSE ids
        /\ last' = Report("countdown", CountName(cd.count))
    /\ UNCHANGED << boundTo, sttVars, gameEnds, rooms, playerToRoom, roomCreationLimiter, readyTimers,
                    closed, now, nextCleanup, crashed, hostGone >>

Min(a, b) == IF a < b THEN a ELSE b
Max(a, b) == IF a > b THEN a ELSE b
InSeq(x, seq) == \E i \in DOMAIN seq : seq[i] = x

\* variant: the boost is added without the cap on the speed
processVoiceRacerCommand_uncapped(game, playerId, matchScore) ==
    IF playerId \notin DOMAIN game.playerWords
    THEN game
    ELSE LET currentSpeed == IF playerId \in DOMAIN game.playerSpeeds
                             THEN game.playerSpeeds[playerId] ELSE 0
             baseBoost == IF currentSpeed < SlowSpeed THEN SlowBoost ELSE FastBoost
             boostAmount == (baseBoost * matchScore) \div 10
             newSpeed == currentSpeed + boostAmount
         IN  [game EXCEPT !.playerSpeeds = Put(@, playerId, newSpeed)]

\* processVoiceRacerCommand: the new session record. A player without an
\* assigned word is ignored.
processVoiceRacerCommand(game, playerId, matchScore) ==
    IF playerId \notin DOMAIN game.playerWords
    THEN game
    ELSE LET currentSpeed == IF playerId \in DOMAIN game.playerSpeeds
                             THEN game.playerSpeeds[playerId] ELSE 0
             baseBoost == IF currentSpeed < SlowSpeed THEN SlowBoost ELSE FastBoost
             boostAmount == (baseBoost * matchScore) \div 10
             newSpeed == Min(currentSpeed + boostAmount,
                             (SpeedCap * matchScore) \div 10)
         IN  [game EXCEPT !.playerSpeeds = Put(@, playerId, newSpeed)]

\* variant: every pull has the base force, whatever was said
processTugOfWarCommand_flat(game, playerId, matchScore) ==
    LET pullForce == BASE_PULL_FORCE IN
    IF InSeq(playerId, game.red)
    THEN [game EXCEPT !.ropePosition = Max(0 - RopeLimit, @ - pullForce)]
    ELSE IF InSeq(playerId, game.blue)
    THEN [game EXCEPT !.ropePosition = Min(RopeLimit, @ + pullForce)]
    ELSE game

\* processTugOfWarCommand: red pulls the rope down, blue pulls it up
processTugOfWarCommand(game, playerId, matchScore) ==
    LET pullForce == (BASE_PULL_FORCE * matchScore) \div 10 IN
    IF InSeq(playerId, game.red)
    THEN [game EXCEPT !.ropePosition = Max(0 - RopeLimit, @ - pullForce)]
    ELSE IF InSeq(playerId, game.blue)
    THEN [game EXCEPT !.ropePosition = Min(RopeLimit, @ + pullForce)]
    ELSE game

\* variant: the status of the session is not looked at
processCommand_anyStatus(roomCode, playerId, matchScore, gs) ==
    IF roomCode \notin DOMAIN gs
    THEN gs
    ELSE IF gs[roomCode].mode = "voice_racer"
    THEN [gs EXCEPT ![roomCode] = processVoiceRacerCommand(@, playerId, matchScore)]
    ELSE IF gs[roomCode].mode = "tug_of_war"
    THEN [gs EXCEPT ![roomCode] = processTugOfWarCommand(@, playerId, matchScore)]
    ELSE gs

\* GameManager.processCommand: the sessions after the command
processCommand(roomCode, playerId, matchScore, gs) ==
    IF roomCode \notin DOMAIN gs \/ gs[roomCode].status # "playing"
    THEN gs
    ELSE IF gs[roomCode].mode = "voice_racer"
    THEN [gs EXCEPT ![roomCode] = processVoiceRacerCommand(@, playerId, matchScore)]
    ELSE IF gs[roomCode].mode = "tug_of_war"
    THEN [gs EXCEPT ![roomCode] = processTugOfWarCommand(@, playerId, matchScore)]
    ELSE gs

\* updateVoiceRacer: friction on every speed, then the position advances by
\* the speed after friction, capped one unit past the finish line
updateVoiceRacer(game) ==
    LET newSpeed(id) == (game.playerSpeeds[id] * 98) \div 100
        speedOf(id) == IF id \in DOMAIN game.playerSpeeds THEN newSpeed(id) ELSE 0
    IN  [game EXCEPT
           !.playerSpeeds = [id \in DOMAIN game.playerPositions |->
                               IF speedOf(id) > StopSpeed THEN speedOf(id) ELSE 0],
           !.playerPositions = [id \in DOMAIN game.playerPositions |->
                               Min(game.playerPositions[id] + speedOf(id),
                                   trackLength + 1000000)]]

\* variant: the rope slackens towards the middle on every tick
updateTugOfWar_slack(game) ==
    [game EXCEPT !.ropePosition = IF @ < 0 THEN Min(0, @ + 60) ELSE Max(0, @ - 60)]

\* updateTugOfWar leaves the rope where the pulls have put it
updateTugOfWar(game) == game

\* the update step of startGameLoop's interval
updateGame(game) ==
    IF game.mode = "voice_racer" THEN updateVoiceRacer(game)
    ELSE IF game.mode = "tug_of_war" THEN updateTugOfWar(game)
    ELSE game

\* the racers at or past the finish line, as indexes of the insertion order
Finishers(game) ==
    { i \in DOMAIN game.order : game.playerPositions[game.order[i]] >= trackLength }

\* variant: the loop over the positions goes on after the first racer found
FirstFinisher_last(game) ==
    game.order[CHOOSE i \in Finishers(game) : \A j \in Finishers(game) : i >= j]

\* the racer at which the loop over the positions returns
FirstFinisher(game) ==
    game.order[CHOOSE i \in Finishers(game) : \A j \in Finishers(game) : i <= j]

\* the first element of a team, undefined (no winner) for an empty team
FirstOf(team) == IF team = << >> THEN << >> ELSE << team[1] >>

\* variant: the rope past the upper threshold is a win of the red team
checkGameEnd_swapped(game) ==
    IF game.mode = "voice_racer"
    THEN IF Finishers(game) # {}
         THEN [ended |-> TRUE,
               winner |-> << FirstFinisher(game) >>]
         ELSE [ended |-> FALSE, winner |-> game.winner]
    ELSE IF game.mode = "tug_of_war"
    THEN IF game.ropePosition <= 0 - RopeWin
         THEN [ended |-> TRUE, winner |-> FirstOf(game.red)]
         ELSE IF game.ropePosition >= RopeWin
         THEN [ended |-> TRUE, winner |-> FirstOf(game.red)]
         ELSE [ended |-> FALSE, winner |-> game.winner]
    ELSE [ended |-> FALSE, winner |-> game.winner]

\* checkGameEnd: [ended, winner], winner a sequence of at most one player id
checkGameEnd(game) ==
    IF game.mode = "voice_racer"
    THEN IF Finishers(game) # {}
         THEN [ended |-> TRUE,
               winner |-> << FirstFinisher(game) >>]
         ELSE [ended |-> FALSE, winner |-> game.winner]
    ELSE IF game.mode = "tug_of_war"
    THEN IF game.ropePosition <= 0 - RopeWin
         THEN [ended |-> TRUE, winner |-> FirstOf(game.red)]
         ELSE IF game.ropePosition >= RopeWin
         THEN [ended |-> TRUE, winner |-> FirstOf(game.blue)]
         ELSE [ended |-> FALSE, winner |-> game.winner]
    ELSE [ended |-> FALSE, winner |-> game.winner]

\* what the gameEnded broadcast of a tick carries of the final state
Ended(mode, winner) ==
    [op |-> "tick", res |-> "gameEnded", mode |-> mode, winner |-> winner]

\* whether a firing of this tick interval takes the early return
TickStops(l) ==
    l.code \notin DOMAIN games \/ games[l.code].status # "playing"

\* the events one firing of a tick interval emits, in the order of emission,
\* each with the serialized session it carries
TickEmits(l, finish) ==
    IF TickStops(l)
    THEN << >>
    ELSE LET updated == updateGame(games[l.code])
             winner == checkGameEnd(updated).winner
         IN  << [event |-> "gameUpdate", gameState |-> updated] >>
             \o (IF finish
                 THEN << [event |-> "gameEnd",
                          gameState |-> [updated EXCEPT !.status = "finished",
                                                        !.winner = winner]] >>
                 ELSE << >>)

\* what a tick reports: the last event it emitted
TickReport(emits) ==
    IF emits = << >>
    THEN Report("tick", "stopped")
    ELSE LET e == emits[Len(emits)] IN
         IF e.gameState.status = "finished"
         THEN Ended(e.gameState.mode, e.gameState.winner)
         ELSE Report("tick", "gameStateUpdate")

\* one firing of a tick interval: the update step, the state broadcast and,
\* when finish holds, endGame with the winner checkGameEnd has set. finish is
\* what checkGameEnd returns after the update of this tick.
TickStep(l, finish) ==
    /\ ~crashed
    /\ l \in loops
    /\ LET updated == updateGame(games[l.code])
           winner == checkGameEnd(updated).winner
           G == IF TickStops(l) THEN stopGameLoop(l.code, CurrentG)
                ELSE IF finish
                THEN endGame(l.code,
                             [CurrentG EXCEPT !.games[l.code] =
                                [updated EXCEPT !.winner = winner]])
                ELSE [CurrentG EXCEPT !.games[l.code] = updated]
       IN
        /\ rooms' = G.rooms
        /\ games' = G.games
        /\ gameLoops' = G.gameLoops
        /\ loops' = G.loops
        /\ gameEnds' = Emitted(l.code, G.ended)
        /\ last' = TickReport(TickEmits(l, finish))
    /\ UNCHANGED << boundTo, sttVars, playerToRoom, roomCreationLimiter, countdowns, readyTimers,
                    closed, now, nextCleanup, crashed, hostGone >>

Tick(l, finish) == TickStep(l, finish) /\ UNCHANGED ids

\* whether checkGameEnd holds after the update of this tick
Finish(l) ==
    ~TickStops(l) /\ checkGameEnd(updateGame(games[l.code])).ended

\* a tick whose outcome is computed from the session
GameTick(l) == Tick(l, Finish(l))

\* ---------------------------------------------------------------------
\* CommandExtractor
\* ---------------------------------------------------------------------

UpperCase == << "A", "B", "C", "D", "E", "F", "G", "H", "I", "J", "K", "L", "M", "N", "O", "P", "Q", "R", "S", "T", "U", "V", "W", "X", "Y", "Z" >>
LowerCase == << "a", "b", "c", "d", "e", "f", "g", "h", "i", "j", "k", "l", "m", "n", "o", "p", "q", "r", "s", "t", "u", "v", "w", "x", "y", "z" >>
Digits == << "0", "1", "2", "3", "4", "5", "6", "7", "8", "9" >>

\* String.toLowerCase, String.trim, String.includes, String.startsWith,
\* String.split(' ') and Array.join(' ')
toLowerCase(text) ==
    [i \in DOMAIN text |->
        IF InSeq(text[i], UpperCase)
        THEN LowerCase[CHOOSE k \in DOMAIN UpperCase : UpperCase[k] = text[i]]
        ELSE text[i]]

RECURSIVE trimStart(_)
trimStart(text) ==
    IF text # << >> /\ Head(text) = " " THEN trimStart(Tail(text)) ELSE text

RECURSIVE trimEnd(_)
trimEnd(text) ==
    IF text # << >> /\ text[Len(text)] = " "
    THEN trimEnd(SubSeq(text, 1, Len(text) - 1)) ELSE text

trim(text) == trimEnd(trimStart(text))

includes(text, part) ==
    \E i \in 1..(Len(text) - Len(part) + 1) :
        SubSeq(text, i, i + Len(part) - 1) = part

startsWith(text, part) ==
    Len(part) <= Len(text) /\ SubSeq(text, 1, Len(part)) = part

RECURSIVE split(_)
split(text) ==
    IF InSeq(" ", text)
    THEN LET i == CHOOSE k \in DOMAIN text :
                    text[k] = " " /\ \A j \in 1..(k - 1) : text[j] # " "
         IN  << SubSeq(text, 1, i - 1) >> \o split(SubSeq(text, i + 1, Len(text)))
    ELSE << text >>

RECURSIVE join(_)
join(words) ==
    IF words = << >> THEN << >>
    ELSE IF Len(words) = 1 THEN words[1]
    ELSE words[1] \o << " " >> \o join(Tail(words))

\* the phrase of a trigger word, << >> for a word that has none
PHRASE_MAP(word) ==
    IF word = wifi THEN << "p", "a", "n", "d", "a", "s", " ", "h", "a", "c", "k", " ", "w", "i", "f", "i" >>
    ELSE IF word = gravity THEN << "s", "q", "u", "i", "r", "r", "e", "l", "s", " ", "f", "i", "g", "h", "t", " ", "g", "r", "a", "v", "i", "t", "y" >>
    ELSE << >>

\* the generic vocabulary, in the order extract goes through it
COMMANDS ==
    << [ type |-> "movement", command |-> << "g", "o" >>,
         variants |-> << << "g", "o" >>, << "m", "o", "v", "e" >>, << "f", "o", "r", "w", "a", "r", "d" >>, << "a", "d", "v", "a", "n", "c", "e" >> >> ],
       [ type |-> "movement", command |-> << "l", "e", "f", "t" >>,
         variants |-> << << "l", "e", "f", "t" >>, << "t", "u", "r", "n", " ", "l", "e", "f", "t" >>, << "g", "o", " ", "l", "e", "f", "t" >> >> ],
       [ type |-> "movement", command |-> << "r", "i", "g", "h", "t" >>,
         variants |-> << << "r", "i", "g", "h", "t" >>, << "t", "u", "r", "n", " ", "r", "i", "g", "h", "t" >>, << "g", "o", " ", "r", "i", "g", "h", "t" >> >> ],
       [ type |-> "movement", command |-> << "s", "t", "o", "p" >>,
         variants |-> << << "s", "t", "o", "p" >>, << "h", "a", "l", "t" >>, << "f", "r", "e", "e", "z", "e" >> >> ],
       [ type |-> "movement", command |-> << "b", "a", "c", "k" >>,
         variants |-> << << "b", "a", "c", "k" >>, << "r", "e", "v", "e", "r", "s", "e" >>, << "b", "a", "c", "k", "w", "a", "r", "d" >> >> ],
       [ type |-> "action", command |-> << "j", "u", "m", "p" >>,
         variants |-> << << "j", "u", "m", "p" >>, << "h", "o", "p" >>, << "l", "e", "a", "p" >> >> ],
       [ type |-> "action", command |-> << "f", "i", "r", "e" >>,
         variants |-> << << "f", "i", "r", "e" >>, << "s", "h", "o", "o", "t" >>, << "b", "a", "n", "g" >> >> ],
       [ type |-> "action", command |-> << "d", "r", "a", "w" >>,
         variants |-> << << "d", "r", "a", "w" >> >> ],
       [ type |-> "action", command |-> << "d", "u", "c", "k" >>,
         variants |-> << << "d", "u", "c", "k" >>, << "c", "r", "o", "u", "c", "h" >>, << "d", "o", "w", "n" >> >> ],
       [ type |-> "game_specific", command |-> << "b", "o", "o", "s", "t" >>,
         variants |-> << << "b", "o", "o", "s", "t" >>, << "t", "u", "r", "b", "o" >>, << "s", "p", "e", "e", "d" >> >> ],
       [ type |-> "game_specific", command |-> << "b", "r", "a", "k", "e" >>,
         variants |-> << << "b", "r", "a", "k", "e" >>, << "s", "l", "o", "w" >> >> ],
       [ type |-> "game_specific", command |-> << "r", "e", "a", "d", "y" >>,
         variants |-> << << "r", "e", "a", "d", "y" >> >> ] >>

\* \b of the regular expression: a word character is a letter, a digit or _
IsWordChar(ch) ==
    InSeq(ch, LowerCase) \/ InSeq(ch, UpperCase) \/ InSeq(ch, Digits) \/ ch = "_"

\* new RegExp(`\\b${variant}\\b`).test(text)
wordRegex(text, variant) ==
    \E i \in 1..(Len(text) - Len(variant) + 1) :
        /\ SubSeq(text, i, i + Len(variant) - 1) = variant
        /\ (i = 1 \/ ~IsWordChar(text[i - 1]))
        /\ (i + Len(variant) - 1 = Len(text) \/ ~IsWordChar(text[i + Len(variant)]))

matchesAnyVariant(text, variants) ==
    LET V == DOMAIN variants
        multi(v) == InSeq(" ", variants[v])
        isPartOfLongerCommand(v) ==
            \E u \in V : /\ multi(u)
                          /\ includes(variants[u], variants[v])
                          /\ includes(text, variants[u])
        words == split(text)
    IN  \/ \E v \in V : text = variants[v]
        \/ \E v \in V :
              IF multi(v) THEN includes(text, variants[v])
              ELSE wordRegex(text, variants[v]) /\ ~isPartOfLongerCommand(v)
        \/ /\ Len(words) > 1
           /\ \E v \in V : /\ ~multi(v)
                            /\ \A w \in DOMAIN words : words[w] = variants[v]

\* confidences are in thousandths, match scores in tenths; a command without
\* a match score carries << >>
NoCommand ==
    [ found |-> FALSE, type |-> "none", command |-> << >>, confidence |-> 0,
      matchScore |-> << >> ]

Dynamic(word, confidence, matchScore) ==
    [ found |-> TRUE, type |-> "game_specific", command |-> word,
      confidence |-> confidence, matchScore |-> << matchScore >> ]

\* variant: the bare word is looked for before the phrase
extractWord_wordFirst(normalizedText, confidence, word) ==
    LET wordLower == toLowerCase(word)
        fullPhrase == PHRASE_MAP(wordLower)
        phraseLower == toLowerCase(fullPhrase)
        phraseWords == split(phraseLower)
        n == Len(phraseWords)
        lastTwo == join(SubSeq(phraseWords, n - 1, n))
        firstTwo == join(SubSeq(phraseWords, 1, 2))
    IN  IF includes(normalizedText, wordLower)
        THEN Dynamic(wordLower, confidence, 10)
        ELSE IF fullPhrase # << >> /\ includes(normalizedText, phraseLower)
        THEN Dynamic(wordLower, confidence, 20)
        ELSE IF fullPhrase # << >> /\ n >= 3 /\ includes(normalizedText, lastTwo)
        THEN Dynamic(wordLower, confidence, 15)
        ELSE IF /\ fullPhrase # << >> /\ n >= 3
                /\ includes(normalizedText, firstTwo)
                /\ includes(normalizedText, wordLower)
        THEN Dynamic(wordLower, confidence, 15)
        ELSE IF includes(normalizedText, wordLower)
        THEN Dynamic(wordLower, confidence, 10)
        ELSE IF /\ Len(wordLower) >= 3 /\ Len(normalizedText) >= 2
                /\ startsWith(wordLower, normalizedText)
                /\ Len(normalizedText) * 10 >= Len(wordLower) * 6
        THEN Dynamic(wordLower, (confidence * 9) \div 10, 8)
        ELSE NoCommand

\* the dynamic-word part of extract for one word
extractWord(normalizedText, confidence, word) ==
    LET wordLower == toLowerCase(word)
        fullPhrase == PHRASE_MAP(wordLower)
        phraseLower == toLowerCase(fullPhrase)
        phraseWords == split(phraseLower)
        n == Len(phraseWords)
        lastTwo == join(SubSeq(phraseWords, n - 1, n))
        firstTwo == join(SubSeq(phraseWords, 1, 2))
    IN  IF fullPhrase # << >> /\ includes(normalizedText, phraseLower)
        THEN Dynamic(wordLower, confidence, 20)
        ELSE IF fullPhrase # << >> /\ n >= 3 /\ includes(normalizedText, lastTwo)
        THEN Dynamic(wordLower, confidence, 15)
        ELSE IF /\ fullPhrase # << >> /\ n >= 3
                /\ includes(normalizedText, firstTwo)
                /\ includes(normalizedText, wordLower)
        THEN Dynamic(wordLower, confidence, 15)
        ELSE IF includes(normalizedText, wordLower)
        THEN Dynamic(wordLower, confidence, 10)
        ELSE IF /\ Len(wordLower) >= 3 /\ Len(normalizedText) >= 2
                /\ startsWith(wordLower, normalizedText)
                /\ Len(normalizedText) * 10 >= Len(wordLower) * 6
        THEN Dynamic(wordLower, (confidence * 9) \div 10, 8)
        ELSE NoCommand

\* the generic fallback of extract: the first registered command that matches
extractGeneric(normalizedText, confidence) ==
    LET hits == { k \in DOMAIN COMMANDS :
                    matchesAnyVariant(normalizedText, COMMANDS[k].variants) }
    IN  IF hits = {} THEN NoCommand
        ELSE LET k == CHOOSE h \in hits : \A j \in hits : h <= j
             IN  [ found |-> TRUE, type |-> COMMANDS[k].type,
                   command |-> COMMANDS[k].command, confidence |-> confidence,
                   matchScore |-> << >> ]

\* CommandExtractor.extract; dynamicWords holds at most the player's word
extract(text, confidence, dynamicWords) ==
    LET normalizedText == trim(toLowerCase(text))
        dynamic == IF dynamicWords = << >> THEN NoCommand
                   ELSE extractWord(normalizedText, confidence, dynamicWords[1])
    IN  IF dynamic.found THEN dynamic
        ELSE extractGeneric(normalizedText, confidence)

getConfidenceThreshold(commandType) ==
    IF commandType = "movement" THEN 700
    ELSE IF commandType = "action" THEN 800
    ELSE IF commandType = "game_specific" THEN 600
    ELSE 700

\* what the players say in the runs, and how sure the recogniser is
Texts ==
    { << "p", "a", "n", "d", "a", "s", " ", "h", "a", "c", "k", " ", "w", "i", "f", "i" >>,
      << "h", "a", "c", "k", " ", "w", "i", "f", "i" >>,
      << "w", "i", "f", "i" >>,
      << "w", "i", "f" >>,
      << "g", "r", "a", "v", "i", "t", "y" >>,
      << "s", "q", "u", "i", "r", "r", "e", "l", "s", " ", "f", "i", "g", "h", "t", " ", "g", "r", "a", "v", "i", "t", "y" >>,
      << "g", "o" >>,
      << "s", "t", "o", "p" >>,
      << "j", "u", "m", "p" >>,
      << "h", "e", "l", "l", "o" >> }
Confidences == { 650, 750, 950 }

\* extract on every transcript of the runs, computed once: the set of
\* << input, command >> pairs
Heard ==
    Texts \X Confidences \X ({ << >> } \cup { << w >> : w \in Range(RACING_WORDS) })
Extracted ==
    { << heard, extract(heard[1], heard[2], heard[3]) >> : heard \in Heard }
ExtractedFrom(text, confidence, dynamicWords) ==
    (CHOOSE pair \in Extracted :
        pair[1] = << text, confidence, dynamicWords >>)[2]

\* the default of the destructuring in processVoiceRacerCommand and
\* processTugOfWarCommand: a command without a match score counts as 1.0
MatchScoreOf(command) ==
    IF command.matchScore = << >> THEN 10 ELSE command.matchScore[1]

\* the word the transcript listener looks up for the player
dynamicWordsOf(roomCode, playerId) ==
    IF /\ roomCode \in DOMAIN games
       /\ games[roomCode].mode \in { "voice_racer", "tug_of_war" }
       /\ playerId \in DOMAIN games[roomCode].playerWords
    THEN << games[roomCode].playerWords[playerId] >>
    ELSE << >>

\* transcriptionManager.on('transcript'): a transcript of a player that has
\* joined the room; a command at or above its threshold goes to the room and
\* to the game manager
TranscriptStep(roomCode, playerId, text, confidence) ==
    /\ ~crashed
    /\ roomCode \in DOMAIN rooms
    /\ playerId \in PlayerIdsOf(rooms[roomCode])
    /\ LET command == ExtractedFrom(text, confidence,
                                    dynamicWordsOf(roomCode, playerId))
           valid == /\ command.found
                    /\ command.confidence >= getConfidenceThreshold(command.type)
       IN  /\ games' = IF valid
                       THEN processCommand(roomCode, playerId,
                                           MatchScoreOf(command), games)
                       ELSE games
           /\ last' = Report("transcript",
                             IF valid THEN "playerCommand" ELSE "transcript")
    /\ UNCHANGED << boundTo, sttVars, gameEnds, rooms, playerToRoom, roomCreationLimiter, gameLoops, loops,
                    countdowns, readyTimers, closed, now, nextCleanup,
                    crashed, hostGone >>

Transcript(roomCode, playerId, text, confidence) ==
    TranscriptStep(roomCode, playerId, text, confidence) /\ UNCHANGED ids

\* GameManager.processCommand applied to an action of any player id
ProcessCommandStep(roomCode, playerId, matchScore) ==
    /\ ~crashed
    /\ games' = processCommand(roomCode, playerId, matchScore, games)
    /\ UNCHANGED << boundTo, sttVars, gameEnds, rooms, playerToRoom, roomCreationLimiter, gameLoops, loops,
                    countdowns, readyTimers, closed, now, nextCleanup,
                    crashed, hostGone, last >>

ProcessCommand(roomCode, playerId, matchScore) ==
    ProcessCommandStep(roomCode, playerId, matchScore) /\ UNCHANGED ids

\* the hourly setInterval
Cleanup ==
    /\ ~crashed
    /\ now = nextCleanup
    /\ LET r == cleanupOldRooms IN
        /\ rooms' = r.rooms
        /\ playerToRoom' = r.playerToRoom
    /\ nextCleanup' = nextCleanup + CleanupInterval
    /\ last' = Report("cleanup", "none")
    /\ boundTo' = Forget(boundTo, rooms')
    /\ UNCHANGED << sttVars, roomCreationLimiter, gameVars, closed, now, ids, crashed,
                    hostGone >>

\* variant: the sweep empties the limiter
pruneLimiter_all(t) == [ip \in {} |-> t]

\* the 5-minute setInterval, firing at time t: entries older than the
\* cooldown go
pruneLimiter(t) ==
    [ip \in { i \in DOMAIN roomCreationLimiter :
                 ~(t - roomCreationLimiter[i] > ROOM_CREATION_COOLDOWN) } |->
        roomCreationLimiter[ip]]

\* a tick that would change something fires before the clock moves on
TickPending(l) ==
    TickStops(l) /\ l.code \in DOMAIN gameLoops

\* time passes: by TimeStep, or up to the next sweep if that is sooner; the
\* sub-second timers that are pending fire first, and the limiter has been
\* pruned by the time the clock is read again
AdvanceTime ==
    /\ ~crashed
    /\ now < nextCleanup
    /\ now + TimeStep <= StartTime + MaxClock * TimeStep
    /\ readyTimers = << >>
    /\ countdowns = << >>
    /\ \A l \in loops : ~TickPending(l)
    /\ now' = IF now + TimeStep < nextCleanup THEN now + TimeStep ELSE nextCleanup
    /\ roomCreationLimiter' = pruneLimiter(now')
    /\ last' = Report("time", "none")
    /\ UNCHANGED << boundTo, sttVars, rooms, playerToRoom, gameVars, closed, nextCleanup, ids,
                    crashed, hostGone >>

\* the 5-minute setInterval callback, at whatever instant it fires
PruneLimiter ==
    /\ ~crashed
    /\ roomCreationLimiter' = pruneLimiter(now)
    /\ UNCHANGED << boundTo, sttVars, rooms, playerToRoom, gameVars, closed, now, nextCleanup,
                    ids, crashed, hostGone, last >>

\* seconds pass with no timer firing
Elapse ==
    /\ ~crashed
    /\ now + ShortStep <= StartTime + MaxShort * ShortStep
    /\ now' = now + ShortStep
    /\ last' = Report("time", "none")
    /\ UNCHANGED << boundTo, sttVars, rooms, playerToRoom, roomCreationLimiter, gameVars, closed,
                    nextCleanup, ids, crashed, hostGone >>

\* RoomManager.getRoomsToNotifyHostDisconnect at time t
getRoomsToNotifyHostDisconnect(t) ==
    { c \in DOMAIN rooms :
        /\ rooms[c].hostDisconnectedAt # << >>
        /\ rooms[c].hostDisconnectedAt[1] < t - NotifyDelay
        /\ rooms[c].hostDisconnectedAt[1] > t - GracePeriod }

\* the 2-second setInterval: two seconds pass and the callback emits
\* 'hostDisconnected' to every room the scan returns
NotifyScan ==
    /\ ~crashed
    /\ now + ScanInterval <= StartTime + MaxScans * ScanInterval
    /\ now' = now + ScanInterval
    /\ LET roomsToNotify == getRoomsToNotifyHostDisconnect(now') IN
        /\ hostGone' = [c \in DOMAIN hostGone |->
                          IF c \in roomsToNotify
                          THEN [hostGone[c] EXCEPT !.told = @ + 1]
                          ELSE hostGone[c]]
        /\ last' = Report("scan", IF roomsToNotify = {} THEN "none"
                                  ELSE "hostDisconnected")
    /\ UNCHANGED << boundTo, sttVars, rooms, playerToRoom, roomCreationLimiter, gameVars, closed,
                    nextCleanup, ids, crashed >>

\* variant: the entry stays registered when the last attempt is rejected
connectFailed_kept(playerId, retries, S) == S

\* the catch of one attempt: when no attempts are left the entry of the
\* player is deleted
connectFailed(playerId, retries, S) ==
    IF retries = 0 THEN Del(S, playerId) ELSE S

\* connecting without its i-th call
Returned(i) ==
    [j \in 1..(Len(connecting) - 1) |->
        IF j < i THEN connecting[j] ELSE connecting[j + 1]]

\* one await transcriber.connect() of the retry loop of createSession
\* settles. Resolved: the 'open' listener marks the session registered for
\* the player and the call returns. Rejected with attempts left: the call
\* waits RetryDelay. Rejected on the last attempt: the entry of the player is
\* deleted, 'error' is emitted and the call throws into the handler's catch,
\* which emits 'transcriptionError'.
Connect(i, resolved) ==
    /\ ~crashed
    /\ i \in DOMAIN connecting
    /\ ~connecting[i].waiting
    /\ LET call == connecting[i]
           playerId == call.playerId
           retries == IF resolved THEN call.retries ELSE call.retries - 1
           attempt == (ConnectRetries + 1) - call.retries
       IN
        /\ sessions' =
              IF resolved
              THEN IF playerId \in DOMAIN sessions
                   THEN [sessions EXCEPT ![playerId].isConnected = TRUE]
                   ELSE sessions
              ELSE connectFailed(playerId, retries, sessions)
        /\ connecting' =
              IF resolved \/ retries = 0
              THEN Returned(i)
              ELSE [connecting EXCEPT ![i] = [call EXCEPT !.retries = retries,
                                                          !.waiting = TRUE]]
        /\ last' = [op |-> "connect",
                    res |-> IF resolved THEN "transcriptionReady"
                            ELSE IF retries = 0 THEN "transcriptionError"
                            ELSE "retry",
                    playerId |-> playerId,
                    attempt |-> attempt,
                    delay |-> IF ~resolved /\ retries > 0 THEN RetryDelay ELSE 0]
    /\ UNCHANGED << boundTo, rooms, playerToRoom, roomCreationLimiter, gameVars, closed,
                    now, nextCleanup, ids, crashed, hostGone, closing >>

\* the setTimeout of the wait between two attempts fires
RetryTimer(i) ==
    /\ ~crashed
    /\ i \in DOMAIN connecting
    /\ connecting[i].waiting
    /\ connecting' = [connecting EXCEPT ![i].waiting = FALSE]
    /\ UNCHANGED << boundTo, rooms, playerToRoom, roomCreationLimiter, gameVars, closed,
                    now, nextCleanup, ids, crashed, hostGone, last, sessions,
                    closing >>

\* the await transcriber.close() of endSession resolves: the entry of the
\* player is deleted, whichever session it is by now
Closed(playerId) ==
    /\ ~crashed
    /\ playerId \in closing
    /\ sessions' = Del(sessions, playerId)
    /\ closing' = closing \ {playerId}
    /\ last' = Report("close", "ended")
    /\ UNCHANGED << boundTo, rooms, playerToRoom, roomCreationLimiter, gameVars, closed,
                    now, nextCleanup, ids, crashed, hostGone, connecting >>

(* --------------------------- specification ---------------------------- *)

Init ==
    /\ rooms = Empty
    /\ playerToRoom = Empty
    /\ roomCreationLimiter = Empty
    /\ games = Empty
    /\ gameLoops = Empty
    /\ loops = {}
    /\ countdowns = << >>
    /\ readyTimers = << >>
    /\ closed = {}
    /\ now = StartTime
    /\ nextCleanup = StartTime + CleanupInterval
    /\ ids = [room |-> 1, player |-> 1, session |-> 1, timer |-> 1, loop |-> 1,
              move |-> 0]
    /\ crashed = FALSE
    /\ hostGone = Empty
    /\ last = Report("init", "none")
    /\ sessions = Empty
    /\ connecting = << >>
    /\ closing = {}
    /\ gameEnds = Empty
    /\ boundTo = Bound(rooms)

\* the player ids handed out so far: the ids a client can know
KnownIds == 1..(ids.player - 1)

\* the draw of the runs that keep to one room code
OneDraw == { <<0, 0, 0, 0>> }
OneCode == { CodeOf(d) : d \in OneDraw }

\* The registry of one room code over time: sockets connect, join, leave,
\* drop and come back, the host removes players, the sweep runs. No game is
\* started in these runs.
Next ==
    \/ \E conn \in Conns : CreateRoom(conn, OneDraw)
    \/ \E conn \in Conns, code \in OneCode : ReconnectRoom(conn, code)
    \/ \E conn \in Conns, code \in OneCode, pid \in KnownIds :
          ReconnectPlayer(conn, code, pid)
    \/ \E conn \in Conns, code \in OneCode : JoinRoom(conn, code)
    \/ \E conn \in Conns, code \in OneCode, pid \in KnownIds :
          RemovePlayer(conn, code, pid)
    \/ \E conn \in Conns : LeaveRoom(conn)
    \/ \E conn \in Conns : Disconnect(conn)
    \/ Cleanup
    \/ AdvanceTime

Spec == Init /\ [][Next]_vars

\* sockets of the game runs: 1 hosts, 2 plays
Host == 1
Guests == { 2 }

\* One room from lobby to game end and back, every socket staying connected:
\* the ready gate, the delayed start, the countdown and the tick loop.
NextGame ==
    \/ CreateRoom(Host, OneDraw)
    \/ \E conn \in Guests, code \in OneCode : JoinRoom(conn, code)
    \/ \E conn \in {Host} \cup Guests, code \in OneCode, mode \in GameModes,
          words \in OneShuffle :
          StartGame(conn, code, mode, words)
    \/ \E code \in OneCode : ReturnToLobby(Host, code)
    \/ \E conn \in Guests, code \in OneCode, pid \in KnownIds, hasMic \in BOOLEAN :
          PlayerReady(conn, code, pid, hasMic)
    \/ \E conn \in Guests, code \in OneCode, pid \in KnownIds :
          PlayerNotReady(conn, code, pid)
    \/ \E code \in OneCode, pid \in KnownIds : RemovePlayer(Host, code, pid)
    \/ DelayedStart
    \/ CountdownFire
    \/ \E l \in loops, finish \in BOOLEAN : Tick(l, finish)

SpecGame == Init /\ [][NextGame]_vars

\* states in the middle of a game, for the play runs
RopeDraws == { 0 - 810, 0 - 780, 0, 780, 810 }
PositionDraws == { 0, trackLength - 50000 }
SpeedDraws == { 0, 1013, 14000, 60000, 150000 }
Phases == { "none", "waiting", "countdown", "playing" }
PlayCode == CodeOf(<< 0, 0, 0, 0 >>)
PlayPlayers ==
    << [id |-> 1, socketId |-> 2, connected |-> TRUE],
       [id |-> 2, socketId |-> 2, connected |-> TRUE] >>
Stranger == 3

\* the room of the play runs: created by socket 1, joined twice from socket
\* 2, and as far into a game as the phase says
PlayRoom(phase) ==
    [ code |-> PlayCode,
      hostSocketId |-> Host,
      players |-> PlayPlayers,
      gameState |-> IF phase = "none" THEN "waiting"
                    ELSE IF phase = "waiting" THEN "preparing" ELSE "playing",
      createdAt |-> StartTime,
      hostDisconnectedAt |-> << >>,
      readyPlayers |-> IF phase \in { "countdown", "playing" }
                       THEN [id \in { 1, 2 } |-> [ready |-> TRUE, hasMic |-> TRUE]]
                       ELSE Empty,
      rid |-> 1 ]

\* One idle room, one room with a session that is waiting or counting down,
\* or one room in the middle of a race or a tug of war.
InitPlay ==
    /\ \E phase \in Phases :
        /\ rooms = Put(Empty, PlayCode, PlayRoom(phase))
        /\ ids = [room |-> 2, player |-> 3,
                  session |-> IF phase = "none" THEN 1 ELSE 2,
                  timer |-> IF phase \in { "countdown", "playing" } THEN 2 ELSE 1,
                  loop |-> IF phase = "playing" THEN 2 ELSE 1,
                  move |-> 0]
        /\ \E mode \in { "voice_racer", "tug_of_war" }, words \in Shuffles,
              rope \in RopeDraws,
              positions \in [{ 1, 2 } -> PositionDraws],
              speeds \in [{ 1, 2 } -> SpeedDraws] :
            LET racer == mode = "voice_racer"
                playing == phase = "playing"
                fresh == [NewSession(mode, PlayPlayers, words) EXCEPT !.sid = 1]
            IN  /\ ~playing => rope = 0 /\ positions = [id \in { 1, 2 } |-> 0]
                                /\ speeds = [id \in { 1, 2 } |-> 0]
                /\ playing /\ racer => rope = 0
                /\ playing /\ ~racer => positions = [id \in { 1, 2 } |-> 0]
                                        /\ speeds = [id \in { 1, 2 } |-> 0]
                /\ phase = "none" => mode = "voice_racer" /\ words \in OneShuffle
                /\ games = IF phase = "none" THEN Empty
                           ELSE Put(Empty, PlayCode,
                                    [fresh EXCEPT
                                       !.status = phase,
                                       !.ropePosition = rope,
                                       !.playerPositions =
                                           IF racer THEN positions ELSE Empty,
                                       !.playerSpeeds =
                                           IF racer THEN speeds ELSE Empty])
        /\ countdowns = IF phase = "countdown"
                        THEN << [code |-> PlayCode, sid |-> 1, count |-> 3] >>
                        ELSE << >>
        /\ loops = IF phase = "playing"
                   THEN { [lid |-> 1, code |-> PlayCode] } ELSE {}
        /\ gameLoops = IF phase = "playing" THEN Put(Empty, PlayCode, 1) ELSE Empty
    /\ playerToRoom = Put(Empty, 2, PlayCode)
    /\ roomCreationLimiter = Put(Empty, IpOf(Host), StartTime)
    /\ readyTimers = << >>
    /\ closed = {}
    /\ now = StartTime
    /\ nextCleanup = StartTime + CleanupInterval
    /\ crashed = FALSE
    /\ hostGone = Empty
    /\ last = Report("init", "none")
    /\ sessions = Established(rooms)
    /\ connecting = << >>
    /\ closing = {}
    /\ gameEnds = Empty
    /\ boundTo = Bound(rooms)

\* a move of a play run; the runs are cut after MaxMoves moves
Move(step) ==
    /\ ids.move < MaxMoves
    /\ step
    /\ ids' = [ids EXCEPT !.move = @ + 1]

\* A game in progress: what the players say, the actions that reach the game
\* manager, the ticks of the game loop.
NextPlay ==
    \/ \E pid \in { 1, 2 }, text \in Texts, confidence \in Confidences :
          Move(TranscriptStep(PlayCode, pid, text, confidence))
    \/ \E pid \in { 1, 2, Stranger }, matchScore \in Scores :
          Move(ProcessCommandStep(PlayCode, pid, matchScore))
    \/ \E l \in loops : Move(TickStep(l, Finish(l)))
    \/ CountdownFire

SpecPlay == InitPlay /\ [][NextPlay]_vars

\* a player that has reported a microphone says their whole phrase while the
\* room is playing, and the recogniser hears it well
Speak(roomCode, playerId) ==
    /\ roomCode \in DOMAIN rooms
    /\ rooms[roomCode].gameState = "playing"
    /\ playerId \in DOMAIN rooms[roomCode].readyPlayers
    /\ rooms[roomCode].readyPlayers[playerId].hasMic
    /\ roomCode \in DOMAIN games
    /\ playerId \in DOMAIN games[roomCode].playerWords
    /\ Transcript(roomCode, playerId,
                  PHRASE_MAP(games[roomCode].playerWords[playerId]), 950)

\* One tug of war from the lobby to its end: the host starts the game once,
\* the players report ready from the ready screen, the timers fire, the
\* players with a microphone pull with their whole phrase.
NextDuel ==
    \/ CreateRoom(Host, OneDraw)
    \/ \E conn \in Guests, code \in OneCode : JoinRoom(conn, code)
    \/ \E code \in OneCode, words \in OneShuffle :
          /\ code \in DOMAIN rooms
          /\ rooms[code].gameState = "waiting"
          /\ StartGame(Host, code, "tug_of_war", words)
    \/ \E conn \in Guests, code \in OneCode, pid \in KnownIds, hasMic \in BOOLEAN :
          /\ code \in DOMAIN rooms
          /\ rooms[code].gameState = "preparing"
          /\ PlayerReady(conn, code, pid, hasMic)
    \/ DelayedStart
    \/ CountdownFire
    \/ \E code \in OneCode, pid \in KnownIds : Speak(code, pid)
    \/ \E l \in loops : GameTick(l)

\* The timers of the server fire, and a player who speaks keeps speaking.
FairDuel ==
    /\ WF_vars(DelayedStart)
    /\ WF_vars(CountdownFire)
    /\ WF_vars(\E l \in loops : GameTick(l))
    /\ WF_vars(\E code \in OneCode, pid \in KnownIds : Speak(code, pid))

SpecDuel == Init /\ [][NextDuel]_vars /\ FairDuel

\* the rooms of the creation runs: the players that are in the room, in the
\* order in which the room lists them
MaxSeats == 4
Seatings ==
    { seats \in UNION { [1..n -> 1..MaxSeats] : n \in 0..MaxSeats } :
        \A i, j \in DOMAIN seats : seats[i] = seats[j] => i = j }

\* One room in the lobby with any of these players.
InitCreate ==
    /\ \E seats \in Seatings :
          rooms = Put(Empty, PlayCode,
                      [PlayRoom("none") EXCEPT !.players =
                          [i \in DOMAIN seats |->
                              [id |-> seats[i], socketId |-> 2, connected |-> TRUE]]])
    /\ ids = [room |-> 2, player |-> MaxSeats + 1, session |-> 1, timer |-> 1,
              loop |-> 1, move |-> 0]
    /\ playerToRoom = Put(Empty, 2, PlayCode)
    /\ roomCreationLimiter = Put(Empty, IpOf(Host), StartTime)
    /\ games = Empty
    /\ gameLoops = Empty
    /\ loops = {}
    /\ countdowns = << >>
    /\ readyTimers = << >>
    /\ closed = {}
    /\ now = StartTime
    /\ nextCleanup = StartTime + CleanupInterval
    /\ crashed = FALSE
    /\ hostGone = Empty
    /\ last = Report("init", "none")
    /\ sessions = Established(rooms)
    /\ connecting = << >>
    /\ closing = {}
    /\ gameEnds = Empty
    /\ boundTo = Bound(rooms)

\* The host starts games of every mode for the players in the room, and
\* goes back to the lobby.
NextCreate ==
    \/ \E mode \in GameModes, words \in Shuffles :
          StartGame(Host, PlayCode, mode, words)
    \/ ReturnToLobby(Host, PlayCode)

SpecCreate == InitCreate /\ [][NextCreate]_vars

\* what the matcher is given in the matching runs
Transcripts ==
    Texts \cup
    { << "g", "o", " ", "l", "e", "f", "t" >>,
      << "t", "u", "r", "n", " ", "l", "e", "f", "t" >>,
      << "l", "e", "f", "t" >>,
      << "p", "a", "n", "d", "a", "s", " ", "h", "a", "c", "k" >>,
      << "p", "a", "n", "d", "a", "s", " ", "h", "a", "c", "k", " ", "t", "h", "e", " ", "w", "i", "f", "i" >>,
      << "H", "a", "c", "k", " ", "W", "i", "F", "i" >>,
      << " ", "w", "i", "f", " " >>,
      << "w", "i" >>,
      << "g", "o", " ", "g", "o", " ", "g", "o" >>,
      << "g", "o", "p", "h", "e", "r" >>,
      << "s", "l", "o", "w", " ", "d", "o", "w", "n" >> }
WordLists == { << >> } \cup { << w >> : w \in Range(RACING_WORDS) }

\* CommandExtractor.extract applied to one transcript; last keeps what went
\* in and what came out
Extract(text, confidence, dynamicWords) ==
    /\ ~crashed
    /\ LET command == extract(text, confidence, dynamicWords)
       IN  last' = [ op |-> "extract",
                     res |-> IF command.found THEN "command" ELSE "null",
                     text |-> text, confidence |-> confidence,
                     words |-> dynamicWords, command |-> command ]
    /\ UNCHANGED << boundTo, sttVars, rooms, playerToRoom, roomCreationLimiter, gameVars, closed,
                    now, nextCleanup, ids, crashed, hostGone >>

\* The matcher on its own: it is stateless, so every run is one call after
\* another.
NextMatch ==
    \E text \in Transcripts, confidence \in Confidences, words \in WordLists :
        Extract(text, confidence, words)

SpecMatch == Init /\ [][NextMatch]_vars

\* A room whose host drops while a game is set up or running, and the hourly
\* sweep: the game runs as in the game runs, the host socket (which may have
\* joined its own room as a player, and only then is bound to the room)
\* disconnects and the clock moves on to the sweep.
NextSweep ==
    \/ CreateRoom(Host, OneDraw)
    \/ \E conn \in {Host} \cup Guests, code \in OneCode : JoinRoom(conn, code)
    \/ \E code \in OneCode, words \in OneShuffle :
          StartGame(Host, code, "voice_racer", words)
    \/ \E conn \in Guests, code \in OneCode, pid \in KnownIds :
          PlayerReady(conn, code, pid, TRUE)
    \/ DelayedStart
    \/ CountdownFire
    \/ \E l \in loops, finish \in BOOLEAN : Tick(l, finish)
    \/ Disconnect(Host)
    \/ AdvanceTime
    \/ Cleanup

SpecSweep == Init /\ [][NextSweep]_vars

\* A room whose host socket drops and comes back while the 2-second scan
\* runs; the host may have joined its own room as a player.
NextScan ==
    \/ CreateRoom(Host, OneDraw)
    \/ \E conn \in Conns, code \in OneCode : JoinRoom(conn, code)
    \/ \E conn \in Conns : Disconnect(conn)
    \/ \E conn \in Conns, code \in OneCode : ReconnectRoom(conn, code)
    \/ NotifyScan

SpecScan == Init /\ [][NextScan]_vars

\* sockets of players in the voice runs; 1 hosts
Callers == { 2, 3 }

\* Players join, drop and come back on a new socket while their
\* transcription sessions are set up and torn down; the provider accepts
\* every connection.
NextVoice ==
    \/ CreateRoom(Host, OneDraw)
    \/ \E conn \in Callers, code \in OneCode : JoinRoom(conn, code)
    \/ \E conn \in Callers : Disconnect(conn)
    \/ \E conn \in Callers, code \in OneCode, pid \in KnownIds :
          ReconnectPlayer(conn, code, pid)
    \/ \E i \in DOMAIN connecting : Connect(i, TRUE)
    \/ \E pid \in closing : Closed(pid)

SpecVoice == Init /\ [][NextVoice]_vars

\* One socket joins as players, the players are taken over by a second
\* socket and back, and either socket leaves or drops.
NextRebind ==
    \/ CreateRoom(Host, OneDraw)
    \/ \E code \in OneCode : JoinRoom(2, code)
    \/ \E conn \in Callers, code \in OneCode, pid \in KnownIds :
          ReconnectPlayer(conn, code, pid)
    \/ \E conn \in Callers : LeaveRoom(conn)
    \/ \E conn \in Callers : Disconnect(conn)

SpecRebind == Init /\ [][NextRebind]_vars

\* Players join and leave while the provider accepts or refuses each
\* connection attempt.
NextRetry ==
    \/ CreateRoom(Host, OneDraw)
    \/ \E conn \in Callers, code \in OneCode : JoinRoom(conn, code)
    \/ \E conn \in Callers : LeaveRoom(conn)
    \/ \E i \in DOMAIN connecting, resolved \in BOOLEAN : Connect(i, resolved)
    \/ \E i \in DOMAIN connecting : RetryTimer(i)
    \/ \E pid \in closing : Closed(pid)

SpecRetry == Init /\ [][NextRetry]_vars

\* Rooms under several codes: creation, hosts coming and going, the sweep.
NextCodes ==
    \/ \E conn \in Conns : CreateRoom(conn, RandomDraws)
    \/ \E conn \in Conns, code \in AllCodes : JoinRoom(conn, code)
    \/ \E conn \in Conns, code \in AllCodes : ReconnectRoom(conn, code)
    \/ \E conn \in Conns : Disconnect(conn)
    \/ Cleanup
    \/ AdvanceTime

SpecCodes == Init /\ [][NextCodes]_vars

\* The rate limiter at the scale of its cooldown: rooms are asked for, the
\* pruning sweep fires at any instant, seconds pass.
NextLimiter ==
    \/ \E conn \in Conns : CreateRoom(conn, RandomDraws)
    \/ \E conn \in Conns, code \in AllCodes : JoinRoom(conn, code)
    \/ PruneLimiter
    \/ Elapse

SpecLimiter == Init /\ [][NextLimiter]_vars

(* ------------------------------ properties ---------------------------- *)

\* sockets that hold a seat: the socketId of some player of some room
SeatSockets ==
    UNION { { rooms[c].players[i].socketId : i \in DOMAIN rooms[c].players } :
            c \in DOMAIN rooms }

\* the host socket of room c is connected and has never taken a seat
PureHost(c) ==
    /\ rooms[c].hostSocketId \notin closed
    /\ rooms[c].hostSocketId \notin DOMAIN playerToRoom
    /\ rooms[c].hostSocketId \notin SeatSockets

\* C1: whenever leaveRoom is called with the socket id of a room's current
\* host, a host that holds no player seat, the room stays in the registry,
\* its hostDisconnectedAt becomes the current time, the result says that the
\* host left, and the players of the room are the same as before.
C1_HostLeaveRecorded ==
    \A c \in DOMAIN rooms :
        PureHost(c) =>
            LET r == leaveRoom(rooms[c].hostSocketId) IN
                /\ r.result = "host"
                /\ c \in DOMAIN r.rooms
                /\ r.rooms[c].hostDisconnectedAt = <<now>>
                /\ r.rooms[c].players = rooms[c].players

\* C2: once the host socket of a room has disconnected and more than 30
\* seconds have passed with no reconnectRoom accepted for the room, the room
\* is no longer in the registry and no socket is bound to its code.
C2_GoneAfterGrace ==
    \A c \in DOMAIN hostGone :
        (~hostGone[c].back /\ now - hostGone[c].at > GracePeriod) =>
            /\ c \notin DOMAIN rooms
            /\ \A s \in DOMAIN playerToRoom : playerToRoom[s] # c

\* C3: every reconnectRoom for a code that is in the registry succeeds,
\* however long the host has been away: the room's hostSocketId becomes the
\* calling socket, hostDisconnectedAt is cleared, and the players, their
\* connected flags, readyPlayers and gameState are what they were. It is
\* refused only when the code is not in the registry, and then the registry
\* is unchanged.
C3_ReconnectHost ==
    [][\A conn \in Conns, code \in OneCode :
          ReconnectRoom(conn, code) =>
             IF code \in DOMAIN rooms
             THEN /\ last'.res = "roomReconnected"
                  /\ DOMAIN rooms' = DOMAIN rooms
                  /\ rooms'[code].hostSocketId = conn
                  /\ rooms'[code].hostDisconnectedAt = << >>
                  /\ rooms'[code].players = rooms[code].players
                  /\ rooms'[code].readyPlayers = rooms[code].readyPlayers
                  /\ rooms'[code].gameState = rooms[code].gameState
                  /\ playerToRoom' = playerToRoom
             ELSE /\ last'.res = "roomNotFound"
                  /\ rooms' = rooms
                  /\ playerToRoom' = playerToRoom]_vars

\* C3 witness: a reconnectRoom has just been accepted for a room with a
\* player, whose host socket (which also held the seat of the first player)
\* went away more than the grace period before
C3_Witness ==
    /\ last = Report("reconnectRoom", "roomReconnected")
    /\ \E c \in DOMAIN rooms \cap DOMAIN hostGone :
          /\ hostGone[c].back
          /\ now - hostGone[c].at > GracePeriod
          /\ rooms[c].players # << >>
          /\ rooms[c].players[1].socketId \in closed
          /\ ~rooms[c].players[1].connected
          /\ rooms[c].hostSocketId \notin closed

\* the status changes the room state machine allows
StatusSteps ==
    { <<"waiting", "preparing">>, <<"preparing", "playing">>,
      <<"playing", "finished">>, <<"finished", "waiting">> }

\* C4: from one event to the next the gameState of a room either stays what
\* it was or moves one step along waiting -> preparing -> playing ->
\* finished -> waiting.
C4_StatusMachine ==
    [][\A c \in DOMAIN rooms :
          (c \in DOMAIN rooms' /\ rooms'[c].rid = rooms[c].rid) =>
             \/ rooms'[c].gameState = rooms[c].gameState
             \/ <<rooms[c].gameState, rooms'[c].gameState>> \in StatusSteps]_vars

\* C5: after every startGame that created a session, the room is preparing,
\* the room's session is the new one and is waiting, and no tick interval is
\* registered or live for the room.
C5_AcceptedStartGame ==
    [][\A conn \in Conns, code \in OneCode, mode \in GameModes,
          words \in OneShuffle :
          (StartGame(conn, code, mode, words) /\ ids'.session # ids.session) =>
             /\ rooms'[code].gameState = "preparing"
             /\ code \in DOMAIN games'
             /\ games'[code].sid = ids.session
             /\ games'[code].status = "waiting"
             /\ code \notin DOMAIN gameLoops'
             /\ \A l \in loops' : l.code # code]_vars

\* the host asks for a mode that createGame turns down for the room's players
StartRejected(conn, code, mode) ==
    /\ code \in DOMAIN rooms
    /\ rooms[code].hostSocketId = conn
    /\ Len(rooms[code].players) >= 1
    /\ ~CanCreate(mode, Len(rooms[code].players))

\* C6: a startGame that is turned down (tug_of_war with an odd number of
\* players, or a mode that is not implemented) leaves the gameState and the
\* readyPlayers of the room and the sessions as they were.
C6_RejectedStartGame ==
    [][\A conn \in Conns, code \in OneCode, mode \in GameModes,
          words \in OneShuffle :
          (StartGame(conn, code, mode, words) /\ StartRejected(conn, code, mode)) =>
             /\ rooms'[code].gameState = rooms[code].gameState
             /\ rooms'[code].readyPlayers = rooms[code].readyPlayers
             /\ games' = games]_vars

\* C7: after every returnToLobby sent by the host of a room, the room is
\* waiting, has no session, and no tick interval is registered or live for it.
C7_ReturnToLobby ==
    [][\A conn \in Conns, code \in OneCode :
          ( /\ ReturnToLobby(conn, code)
            /\ code \in DOMAIN rooms
            /\ rooms[code].hostSocketId = conn ) =>
             /\ rooms'[code].gameState = "waiting"
             /\ code \notin DOMAIN games'
             /\ code \notin DOMAIN gameLoops'
             /\ \A l \in loops' : l.code # code]_vars

\* C8: a player whose current socket has disconnected is marked
\* connected = false (the disconnect was the last event of that player, since
\* a closed socket sends nothing more and the player has not been rebound).
C8_ClosedSeatMarked ==
    \A c \in DOMAIN rooms : \A i \in DOMAIN rooms[c].players :
        rooms[c].players[i].socketId \in closed => ~rooms[c].players[i].connected

\* C9: a joinRoom for a code that is not in the registry, or whose room is
\* not waiting, is answered with an error and leaves every room's players and
\* the socket bindings as they were; any other joinRoom appends one player
\* with a fresh id, the caller's socket and connected = true to that room,
\* keeps the players that were there, and binds the socket to the code.
C9_JoinRoom ==
    [][\A conn \in Conns, code \in OneCode :
          JoinRoom(conn, code) =>
             IF code \notin DOMAIN rooms \/ rooms[code].gameState # "waiting"
             THEN /\ last'.res = "error"
                  /\ DOMAIN rooms' = DOMAIN rooms
                  /\ \A c \in DOMAIN rooms : rooms'[c].players = rooms[c].players
                  /\ playerToRoom' = playerToRoom
             ELSE LET old == rooms[code].players
                      new == rooms'[code].players
                  IN  /\ last'.res = "joinedRoom"
                      /\ Len(new) = Len(old) + 1
                      /\ \A i \in DOMAIN old : new[i] = old[i]
                      /\ new[Len(new)].socketId = conn
                      /\ new[Len(new)].connected
                      /\ new[Len(new)].id \notin PlayerIdsOf(rooms[code])
                      /\ rooms'[code].gameState = "waiting"
                      /\ conn \in DOMAIN playerToRoom'
                      /\ playerToRoom'[conn] = code]_vars

\* C9 witness: a joinRoom has just been turned down for a room that exists
\* and has left the lobby
C9_Witness ==
    /\ last = Report("joinRoom", "error")
    /\ \E c \in DOMAIN rooms :
          /\ rooms[c].gameState \in { "preparing", "playing", "finished" }
          /\ rooms[c].players # << >>

Letters ==
    { "A", "B", "C", "D", "E", "F", "G", "H", "I", "J", "K", "L", "M",
      "N", "O", "P", "Q", "R", "S", "T", "U", "V", "W", "X", "Y", "Z" }

\* C10: every createRoom that makes a room adds exactly one room to the
\* registry and leaves every room that was there as it was; afterwards each
\* room is stored under its own code, and each code is four letters A-Z.
C10_FreshCodes ==
    [][\A conn \in Conns :
          (CreateRoom(conn, RandomDraws) /\ ids'.room # ids.room) =>
             /\ \A c \in DOMAIN rooms : c \in DOMAIN rooms' /\ rooms'[c] = rooms[c]
             /\ Cardinality(DOMAIN rooms') = Cardinality(DOMAIN rooms) + 1
             /\ \A c \in DOMAIN rooms' :
                   /\ rooms'[c].code = c
                   /\ Len(c) = 4
                   /\ \A i \in 1..4 : c[i] \in Letters]_vars

\* C10 witness: a room has just been created while another one, made
\* earlier, is still in the registry
C10_Witness ==
    /\ last = Report("createRoom", "roomCreated")
    /\ Cardinality(DOMAIN rooms) = 2
    /\ \E c \in DOMAIN rooms : rooms[c].rid = 1 /\ rooms[c].createdAt < now

\* an identity has had a room made for it less than the cooldown ago (in the
\* runs of SpecLimiter the host socket of a room is the socket that made it)
TooSoon(conn) ==
    \E c \in DOMAIN rooms :
        /\ IpOf(rooms[c].hostSocketId) = IpOf(conn)
        /\ now - rooms[c].createdAt < ROOM_CREATION_COOLDOWN

\* C11: a createRoom from an identity for which a room was made less than 60
\* seconds ago is answered with the wait error and leaves the registry and
\* the limiter as they were, whatever the pruning sweep has done in between;
\* any other createRoom that makes a room records the current time for the
\* identity.
C11_RateLimit ==
    [][\A conn \in Conns :
          CreateRoom(conn, RandomDraws) =>
             IF TooSoon(conn)
             THEN /\ last'.res = "wait"
                  /\ rooms' = rooms
                  /\ roomCreationLimiter' = roomCreationLimiter
             ELSE /\ last'.res = "roomCreated"
                  /\ Cardinality(DOMAIN rooms') = Cardinality(DOMAIN rooms) + 1
                  /\ roomCreationLimiter'[IpOf(conn)] = now]_vars

\* C11 witness: a createRoom has just been turned down 30 seconds after the
\* identity's room was made, with the other identity's entry already pruned
C11_Witness ==
    /\ last = Report("createRoom", "wait")
    /\ \E c \in DOMAIN rooms : now - rooms[c].createdAt = ShortStep
    /\ \E c \in DOMAIN rooms :
          IpOf(rooms[c].hostSocketId) \notin DOMAIN roomCreationLimiter

\* C12: allPlayersReady is emitted, and the delayed start is scheduled, only
\* by a playerReady at which the room is preparing, has a player, and every
\* current player of the room has ready = true; a delayed start is scheduled
\* by nothing else; and a session enters countdown only in a step that
\* consumes a delayed start scheduled for its room.
C12_ReadyGate ==
    [][ /\ (ids'.timer # ids.timer) =>
              \E conn \in Conns, code \in OneCode, pid \in KnownIds,
                 hasMic \in BOOLEAN :
                  /\ PlayerReady(conn, code, pid, hasMic)
                  /\ last'.res = "allPlayersReady"
                  /\ rooms[code].gameState = "preparing"
                  /\ rooms'[code].players # << >>
                  /\ \A i \in DOMAIN rooms'[code].players :
                        LET id == rooms'[code].players[i].id IN
                            /\ id \in DOMAIN rooms'[code].readyPlayers
                            /\ rooms'[code].readyPlayers[id].ready
        /\ (Len(readyTimers') > Len(readyTimers)) => ids'.timer # ids.timer
        /\ \A c \in DOMAIN games \cap DOMAIN games' :
              ( /\ games'[c].sid = games[c].sid
                /\ games[c].status # "countdown"
                /\ games'[c].status = "countdown" ) =>
                  /\ readyTimers # << >>
                  /\ Head(readyTimers).code = c
                  /\ readyTimers' = Tail(readyTimers) ]_vars

\* C12 witness: the second of two players has just become ready in a
\* preparing room, and the delayed start is pending
C12_Witness ==
    /\ last = Report("playerReady", "allPlayersReady")
    /\ readyTimers # << >>
    /\ \E c \in DOMAIN rooms :
          /\ Len(rooms[c].players) = 2
          /\ rooms[c].gameState = "preparing"
          /\ AllReady(rooms[c])

\* C13: for each session the counts are emitted in the order 3, 2, 1, 0, each
\* once: when an interval emits a count for a session, no other interval of
\* that session has got past this count; and a session becomes playing, and
\* a tick interval is started, only in the step that emits count 0.
C13_CountdownOrder ==
    [][ /\ CountdownFire =>
              \A i \in 2..Len(countdowns) :
                  countdowns[i].sid = Head(countdowns).sid =>
                      countdowns[i].count >= Head(countdowns).count
        /\ \A c \in DOMAIN games \cap DOMAIN games' :
              ( /\ games'[c].sid = games[c].sid
                /\ games[c].status # "playing"
                /\ games'[c].status = "playing" ) =>
                  /\ CountdownFire
                  /\ Head(countdowns).count = 0
                  /\ games[c].status = "countdown"
        /\ (loops' \ loops # {}) =>
              CountdownFire /\ Head(countdowns).count = 0 ]_vars

\* C14: a tick of a playing tug-of-war session ends the session with the
\* first player of the red team as winner when the rope is at or below -80,
\* with the first player of the blue team as winner when the rope is at or
\* above 80, and otherwise leaves the session playing without a winner.
C14_TugTick ==
    [][\A l \in loops :
          ( /\ TickStep(l, Finish(l))
            /\ ~TickStops(l)
            /\ games[l.code].mode = "tug_of_war" ) =>
          LET game == games[l.code] IN
          IF game.ropePosition <= 0 - 800
          THEN /\ l.code \notin DOMAIN games'
               /\ last' = Ended("tug_of_war", << game.red[1] >>)
               /\ rooms'[l.code].gameState = "finished"
          ELSE IF game.ropePosition >= 800
          THEN /\ l.code \notin DOMAIN games'
               /\ last' = Ended("tug_of_war", << game.blue[1] >>)
               /\ rooms'[l.code].gameState = "finished"
          ELSE /\ l.code \in DOMAIN games'
               /\ games'[l.code].status = "playing"
               /\ games'[l.code].winner = << >>
               /\ last' = Report("tick", "gameStateUpdate")]_vars

\* a tug of war has just ended on a tick, won by the blue team's player
C14_Witness ==
    /\ last = Ended("tug_of_war", << 2 >>)
    /\ PlayCode \notin DOMAIN games
    /\ rooms[PlayCode].gameState = "finished"

\* the session of the play runs is a race that is being run
Racing == /\ PlayCode \in DOMAIN games
          /\ games[PlayCode].mode = "voice_racer"
          /\ games[PlayCode].status = "playing"

\* the speed the claim gives for a racer action of score m (in tenths) at
\* speed s (in millionths)
Boosted(s, m) ==
    LET b == IF s < 15000 THEN 60000 ELSE 40000
    IN  Min(s + (b * m) \div 10, (150000 * m) \div 10)

\* C16: a racer action with match score m at speed s sets the speed to
\* min(s + b*m, 0.15*m), b being 0.06 when s < 0.015 and 0.04 otherwise; from
\* speed 0 the score 1.0 gives 0.06 and the score 2.0 gives 0.12. The
\* player's bare word is an action of score 1.0, their phrase one of 2.0.
C16_RacerBoost ==
    [][\A pid \in { 1, 2 } :
          Racing =>
          LET s == games[PlayCode].playerSpeeds[pid]
              word == games[PlayCode].playerWords[pid]
              after == games'[PlayCode].playerSpeeds[pid]
          IN  /\ \A m \in Scores :
                    ProcessCommandStep(PlayCode, pid, m) =>
                        /\ after = Boosted(s, m)
                        /\ (s = 0 /\ m = 10) => after = 60000
                        /\ (s = 0 /\ m = 20) => after = 120000
              /\ TranscriptStep(PlayCode, pid, word, 950) => after = Boosted(s, 10)
              /\ TranscriptStep(PlayCode, pid, PHRASE_MAP(word), 950) =>
                        after = Boosted(s, 20)]_vars

\* a racer at rest has said their whole phrase once
C16_Witness ==
    /\ Racing
    /\ ids.move = 1
    /\ last = Report("transcript", "playerCommand")
    /\ games[PlayCode].playerSpeeds = [id \in { 1, 2 } |-> IF id = 1 THEN 120000 ELSE 0]

\* C17: a tick of a playing race ends the session when, after the tick, the
\* position of some player is at or past trackLength, and the winner is the
\* first such player in the order in which the players were inserted; when
\* no position has reached trackLength the session keeps playing.
C17_RaceEnd ==
    [][\A l \in loops :
          ( /\ TickStep(l, Finish(l))
            /\ ~TickStops(l)
            /\ games[l.code].mode = "voice_racer" ) =>
          LET game == games[l.code]
              after == updateVoiceRacer(game).playerPositions
              across == { i \in DOMAIN game.order :
                            after[game.order[i]] >= 100 * 1000000 }
          IN  IF across # {}
              THEN /\ l.code \notin DOMAIN games'
                   /\ \E i \in across :
                         /\ \A j \in across : i <= j
                         /\ last' = Ended("voice_racer", << game.order[i] >>)
                   /\ rooms'[l.code].gameState = "finished"
              ELSE /\ l.code \in DOMAIN games'
                   /\ games'[l.code].status = "playing"
                   /\ games'[l.code].winner = << >>
                   /\ games'[l.code].playerPositions = after
                   /\ last' = Report("tick", "gameStateUpdate")]_vars

\* a race has just ended on a tick, won by the player who joined first
C17_Witness ==
    /\ last = Ended("voice_racer", << 1 >>)
    /\ PlayCode \notin DOMAIN games
    /\ rooms[PlayCode].gameState = "finished"

\* whether a scored action of this player is to be ignored: no session for
\* the room, a session that is not playing, or a player that has no word in
\* the race or is on neither team of the tug of war
Ignored(roomCode, playerId) ==
    \/ roomCode \notin DOMAIN games
    \/ games[roomCode].status # "playing"
    \/ /\ games[roomCode].mode = "voice_racer"
       /\ playerId \notin DOMAIN games[roomCode].playerWords
    \/ /\ games[roomCode].mode = "tug_of_war"
       /\ ~InSeq(playerId, games[roomCode].red)
       /\ ~InSeq(playerId, games[roomCode].blue)

\* C18: a scored action changes nothing of the game state when the room has
\* no session, when the session is not playing, or when the acting player is
\* not part of the session.
C18_IgnoredAction ==
    [][\A pid \in { 1, 2, Stranger } :
          Ignored(PlayCode, pid) =>
          \A m \in Scores, text \in Texts, confidence \in Confidences :
             ( \/ ProcessCommandStep(PlayCode, pid, m)
               \/ TranscriptStep(PlayCode, pid, text, confidence) ) =>
             /\ games' = games
             /\ gameLoops' = gameLoops
             /\ loops' = loops
             /\ countdowns' = countdowns
             /\ rooms' = rooms]_vars

\* a command of a player has reached the game manager while the session was
\* still waiting for the players to be ready
C18_Witness ==
    /\ PlayCode \in DOMAIN games
    /\ games[PlayCode].status = "waiting"
    /\ ids.move = 1
    /\ last = Report("transcript", "playerCommand")

\* the transcript and word pairs in which the transcript matches neither the
\* word nor its phrase, wholly, in part or as a prefix
Unmatched ==
    { pair \in Texts \X Range(RACING_WORDS) :
        ~extractWord(trim(toLowerCase(pair[1])), 1000, pair[2]).found }

\* C19: a transcript that matches neither the player's trigger word nor its
\* phrase, such as "go", "stop" or "jump", changes neither that player's
\* speed in a race nor the rope of a tug of war.
C19_OnlyTriggerWord ==
    [][\A pid \in { 1, 2 }, text \in Texts, confidence \in Confidences :
          ( /\ PlayCode \in DOMAIN games
            /\ << text, games[PlayCode].playerWords[pid] >> \in Unmatched
            /\ TranscriptStep(PlayCode, pid, text, confidence)
            /\ PlayCode \in DOMAIN games' ) =>
          /\ games'[PlayCode].playerSpeeds = games[PlayCode].playerSpeeds
          /\ games'[PlayCode].ropePosition = games[PlayCode].ropePosition]_vars

\* the room of the run is in a tug of war that is being played
Tugging ==
    /\ PlayCode \in DOMAIN games
    /\ games[PlayCode].mode = "tug_of_war"
    /\ games[PlayCode].status = "playing"

\* of the two players only this one has a microphone
OnlyMic(playerId) ==
    /\ PlayCode \in DOMAIN rooms
    /\ \A id \in PlayerIdsOf(rooms[PlayCode]) :
          /\ id \in DOMAIN rooms[PlayCode].readyPlayers
          /\ rooms[PlayCode].readyPlayers[id].hasMic <=> id = playerId

\* C15: with the rope at 6k after k blue pulls of score 2.0 from 0, the next
\* such pull puts it at 6(k+1): 13 pulls reach 78, where a tick does not end
\* the game, the 14th reaches 84, and the next tick declares the first
\* player of the blue team the winner.
C15_BluePulls ==
    [][Tugging =>
          LET game == games[PlayCode]
              blue == game.blue[1]
          IN  /\ \A k \in 0..13 :
                    (game.ropePosition = 60 * k /\ Speak(PlayCode, blue)) =>
                        games'[PlayCode].ropePosition = 60 * (k + 1)
              /\ \A l \in loops :
                    (l.code = PlayCode /\ GameTick(l)) =>
                        /\ game.ropePosition \in { 60 * k : k \in 0..13 } =>
                               /\ PlayCode \in DOMAIN games'
                               /\ games'[PlayCode].status = "playing"
                               /\ games'[PlayCode].winner = << >>
                        /\ game.ropePosition = 60 * 14 =>
                               /\ PlayCode \notin DOMAIN games'
                               /\ last' = Ended("tug_of_war", << blue >>)]_vars

\* only the blue player pulls, and the 14th pull has put the rope at 84
C15_Witness ==
    /\ Tugging
    /\ OnlyMic(games[PlayCode].blue[1])
    /\ games[PlayCode].ropePosition = 840
    /\ last = Report("transcript", "playerCommand")

\* C20: in a two-player tug of war in which only the red player pulls, with
\* their whole phrase, and the ticks keep firing, the room that has started
\* playing eventually sees the game end: gameEnded with the first player of
\* the red team as winner, the session over and the room finished.
C20_RedWins ==
    ( /\ PlayCode \in DOMAIN rooms
      /\ rooms[PlayCode].gameState = "playing"
      /\ PlayCode \in DOMAIN games
      /\ games[PlayCode].mode = "tug_of_war"
      /\ Len(games[PlayCode].red) = 1
      /\ Len(games[PlayCode].blue) = 1
      /\ OnlyMic(games[PlayCode].red[1]) )
    ~> ( /\ last.op = "tick"
         /\ last.res = "gameEnded"
         /\ last.mode = "tug_of_war"
         /\ OnlyMic(last.winner[1])
         /\ PlayCode \notin DOMAIN games
         /\ rooms[PlayCode].gameState = "finished" )

\* the red player alone had a microphone and has pulled the rope over
C20_Witness ==
    /\ last = Ended("tug_of_war", << 1 >>)
    /\ PlayCode \notin DOMAIN games
    /\ rooms[PlayCode].gameState = "finished"
    /\ OnlyMic(1)

\* the ids of the players of the room, in the order of the room's list
Listed(roomCode) ==
    [i \in DOMAIN rooms[roomCode].players |-> rooms[roomCode].players[i].id]

\* C21: creating a tug-of-war session fails for an odd number of players;
\* for an even number the first half of the players in iteration order is
\* the red team and the second half the blue team: the teams are disjoint,
\* of equal size, hold every player exactly once, and the rope starts at 0.
C21_TeamSplit ==
    [][\A words \in Shuffles :
          ( /\ StartGame(Host, PlayCode, "tug_of_war", words)
            /\ Len(rooms[PlayCode].players) >= 1 ) =>
          LET order == Listed(PlayCode)
              n == Len(order)
          IN  IF n % 2 = 1
              THEN /\ PlayCode \notin DOMAIN games'
                   /\ last' = Report("startGame", "error: Failed to create game")
              ELSE /\ PlayCode \in DOMAIN games'
                   /\ LET game == games'[PlayCode]
                          red == Range(game.red)
                          blue == Range(game.blue)
                      IN  /\ game.mode = "tug_of_war"
                          /\ game.red = SubSeq(order, 1, n \div 2)
                          /\ game.blue = SubSeq(order, n \div 2 + 1, n)
                          /\ red \cap blue = {}
                          /\ Cardinality(red) = Cardinality(blue)
                          /\ Len(game.red) + Len(game.blue) = n
                          /\ red \cup blue = Range(order)
                          /\ game.ropePosition = 0]_vars

\* a tug of war has been created for four players listed out of id order
C21_Witness ==
    /\ PlayCode \in DOMAIN games
    /\ games[PlayCode].mode = "tug_of_war"
    /\ games[PlayCode].red = << 3, 1 >>
    /\ games[PlayCode].blue = << 4, 2 >>
    /\ last = Report("startGame", "gameStarted")

\* C22: in a new session of either mode every player has exactly one word
\* of the pool; when the players are not more than the words of the pool no
\* two players have the same word, and two players have the same word only
\* a whole number of pools apart in the order of the players.
C22_WordAssignment ==
    [][\A mode \in GameModes, words \in Shuffles :
          ( /\ StartGame(Host, PlayCode, mode, words)
            /\ ids'.session # ids.session ) =>
          LET order == Listed(PlayCode)
              n == Len(order)
              pool == Len(RACING_WORDS)
              game == games'[PlayCode]
          IN  /\ DOMAIN game.playerWords = Range(order)
              /\ \A id \in Range(order) :
                    game.playerWords[id] \in Range(RACING_WORDS)
              /\ n <= pool =>
                    \A a, b \in Range(order) :
                        game.playerWords[a] = game.playerWords[b] => a = b
              /\ \A i, j \in DOMAIN order :
                    game.playerWords[order[i]] = game.playerWords[order[j]]
                        => (j - i) % pool = 0]_vars

\* a race has been created for three players: the third has the word of the
\* first, the second another one
C22_Witness ==
    /\ PlayCode \in DOMAIN games
    /\ games[PlayCode].mode = "voice_racer"
    /\ games[PlayCode].order = << 2, 3, 1 >>
    /\ games[PlayCode].playerWords[2] = games[PlayCode].playerWords[1]
    /\ games[PlayCode].playerWords[3] # games[PlayCode].playerWords[1]

\* the matcher has been given a transcript and this word
Matched(word) == last.op = "extract" /\ last.words = << word >>

\* the score the rules of the claim give for transcript t, word w and phrase
\* p, in tenths; 0 when no rule applies
RuleScore(t, w, p) ==
    LET pw == split(p)
        n == Len(pw)
        lastTwo == pw[n - 1] \o << " " >> \o pw[n]
        firstTwo == pw[1] \o << " " >> \o pw[2]
    IN  IF includes(t, p) THEN 20
        ELSE IF includes(t, lastTwo) \/ (includes(t, firstTwo) /\ includes(t, w))
        THEN 15
        ELSE IF includes(t, w) THEN 10
        ELSE IF /\ Len(w) >= 3 /\ Len(t) >= 2 /\ startsWith(w, t)
                /\ 10 * Len(t) >= 6 * Len(w)
        THEN 8
        ELSE 0

\* the score the matcher has given on the player's word, 0 for none
GivenScore ==
    IF last.command.matchScore = << >> THEN 0 ELSE last.command.matchScore[1]

\* C23: for a word w with a phrase p of three words the matcher gives the
\* score of the first rule that applies to the lower-cased (and trimmed)
\* transcript: 2.0 for p, 1.5 for the last two words of p or the first two
\* with w, 1.0 for w, 0.8 with the confidence times 0.9 for a prefix of w
\* that covers at least six tenths of its length. For wifi: "pandas hack
\* wifi" 2.0, "hack wifi" 1.5, "wifi" 1.0, "wif" 0.8, "gravity" no match.
C23_MatchRules ==
    \A w \in Range(RACING_WORDS) :
        Matched(w) =>
        LET t == trim(toLowerCase(last.text))
            score == RuleScore(t, w, PHRASE_MAP(w))
        IN  /\ Len(split(PHRASE_MAP(w))) >= 3
            /\ GivenScore = score
            /\ score # 0 =>
                  /\ last.command.type = "game_specific"
                  /\ last.command.command = w
                  /\ last.command.confidence =
                        IF score = 8 THEN (last.confidence * 9) \div 10
                        ELSE last.confidence
            /\ w = wifi =>
                  /\ last.text = << "p", "a", "n", "d", "a", "s", " ", "h", "a", "c", "k", " ", "w", "i", "f", "i" >> => GivenScore = 20
                  /\ last.text = << "h", "a", "c", "k", " ", "w", "i", "f", "i" >> => GivenScore = 15
                  /\ last.text = << "w", "i", "f", "i" >> => GivenScore = 10
                  /\ last.text = << "w", "i", "f" >> => GivenScore = 8
                  /\ last.text = << "g", "r", "a", "v", "i", "t", "y" >> => ~last.command.found

\* the matcher has heard the first two words of the phrase and, further on,
\* the word itself
C23_Witness ==
    /\ Matched(wifi)
    /\ last.text = << "p", "a", "n", "d", "a", "s", " ", "h", "a", "c", "k", " ", "t", "h", "e", " ", "w", "i", "f", "i" >>
    /\ GivenScore = 15

\* the registered aliases, as << alias, command >> pairs
Aliases ==
    UNION { { << COMMANDS[k].variants[v], COMMANDS[k].command >> :
                v \in DOMAIN COMMANDS[k].variants } : k \in DOMAIN COMMANDS }

\* C24: in the generic fallback a transcript that is equal to a registered
\* alias is classified as the command of that alias, and a short alias does
\* not win over a longer registered alias that contains it and is in the
\* transcript: "go left" and "turn left" are both the command left.
C24_GenericAliases ==
    (last.op = "extract" /\ last.words = << >>) =>
    LET t == trim(toLowerCase(last.text)) IN
    /\ \A a \in Aliases :
          t = a[1] => last.command.found /\ last.command.command = a[2]
    /\ \A long \in Aliases, short \in Aliases :
          ( /\ Len(short[1]) < Len(long[1])
            /\ includes(long[1], short[1])
            /\ includes(t, long[1])
            /\ short[2] # long[2] ) =>
          ~(last.command.found /\ last.command.command = short[2])
    /\ t \in { << "g", "o", " ", "l", "e", "f", "t" >>, << "t", "u", "r", "n", " ", "l", "e", "f", "t" >> } =>
          last.command.found /\ last.command.command = << "l", "e", "f", "t" >>

\* a second endGame or stopGameLoop right after the first changes nothing
\* and emits nothing
TwiceIsOnce(roomCode) ==
    LET E == endGame(roomCode, CurrentG)
        S == stopGameLoop(roomCode, CurrentG)
    IN  /\ endGame(roomCode, E) = E
        /\ stopGameLoop(roomCode, E) = E
        /\ stopGameLoop(roomCode, S) = S

\* C25: stopping the tick timer and ending the game are idempotent: on a
\* room whose game has already been ended, or that has no session, stop and
\* endGame change no state and emit no gameEnded.
C25_Idempotent ==
    \A roomCode \in AllCodes :
        /\ TwiceIsOnce(roomCode)
        /\ roomCode \notin DOMAIN games =>
              /\ endGame(roomCode, CurrentG) = CurrentG
              /\ stopGameLoop(roomCode, CurrentG) = CurrentG

\* the part of C25 that holds in every state: the second of two calls in a
\* row is a no-op
C25_SecondCall == \A roomCode \in AllCodes : TwiceIsOnce(roomCode)

\* the part of C25 about the sweep: a sweep that follows a sweep at the same
\* instant finds nothing to delete
C25_SweepTwice ==
    [][Cleanup => /\ cleanupOldRooms'.rooms = rooms'
                  /\ cleanupOldRooms'.playerToRoom = playerToRoom']_vars

\* C26: a session is destroyed when its room is deleted: every session the
\* game manager holds and every running tick loop belongs to a room code that
\* is in the room registry.
C26_SessionsInRooms ==
    /\ DOMAIN games \subseteq DOMAIN rooms
    /\ DOMAIN gameLoops \subseteq DOMAIN rooms
    /\ \A l \in loops : l.code \in DOMAIN rooms

\* the host disconnection episodes that are still open
OpenEpisodes ==
    { c \in DOMAIN hostGone : c \in DOMAIN rooms /\ ~hostGone[c].back }

\* C27: in each host disconnection episode the players are told
\* 'hostDisconnected' at most once, and once the episode has lasted longer
\* than 5 seconds and a scan has run since, exactly once.
C27_NotifiedOnce ==
    \A c \in DOMAIN hostGone :
        /\ hostGone[c].told <= 1
        /\ (c \in OpenEpisodes /\ now - hostGone[c].at > NotifyDelay + ScanInterval)
              => hostGone[c].told = 1

\* the part of C27 about short episodes: the players are told only in an
\* open episode that has lasted longer than 5 seconds
C27_NotBeforeDelay ==
    [][\A c \in DOMAIN hostGone :
          (c \in DOMAIN hostGone' /\ hostGone'[c].told > hostGone[c].told)
             => /\ c \in OpenEpisodes
                /\ now' - hostGone[c].at > NotifyDelay]_vars

\* the part of C27 about the scan: it deletes no room
C27_ScanKeepsRooms == [][NotifyScan => rooms' = rooms]_vars

\* no createSession and no endSession is still under way
Settled == connecting = << >> /\ closing = {}

\* the players whose current connection is up
Online ==
    { p \in UNION { { rooms[c].players[i] : i \in DOMAIN rooms[c].players } :
                       c \in DOMAIN rooms } :
        p.connected /\ p.socketId \notin closed }

\* C28: once the asynchronous work has completed, a player whose connection
\* is up (by joining, or by a reconnectPlayer that has succeeded) has a
\* transcription session under its id, however the disconnect of its old
\* connection was interleaved with the reconnect.
C28_SessionAfterReconnect ==
    Settled => \A p \in Online : p.id \in DOMAIN sessions

\* C29: no timer callback raises an error that nothing catches: the delayed
\* start, in particular, finds the session it is to start, also when the
\* host has returned to the lobby since all players were ready.
C29_NoTimerError == ~crashed

\* the part of C29 about the room: a delayed start that finds no session
\* leaves the status of the room as it was
C29_FailedStartKeepsStatus ==
    [][(DelayedStart /\ Head(readyTimers).code \notin DOMAIN games)
          => rooms' = rooms]_vars

LoopsOf(roomCode, ls) == { k \in ls : k.code = roomCode }

\* C31: a tick of a playing session updates the physics, then emits one
\* snapshot of the updated session, then checks for the end; on the tick that
\* ends the game the snapshot comes before gameEnded, gameEnded carries the
\* status finished and the winner, no timer of the room is left running and
\* the session is deleted in that tick; a tick that finds no playing session
\* emits nothing.
C31_TickOrder ==
    [][\A l \in loops, finish \in BOOLEAN :
          TickStep(l, finish) =>
             LET emits == TickEmits(l, finish) IN
             IF TickStops(l)
             THEN emits = << >> /\ games' = games
             ELSE LET updated == updateGame(games[l.code]) IN
                  /\ emits[1] = [event |-> "gameUpdate", gameState |-> updated]
                  /\ IF finish
                     THEN /\ Len(emits) = 2
                          /\ emits[2].event = "gameEnd"
                          /\ emits[2].gameState.status = "finished"
                          /\ emits[2].gameState.winner = checkGameEnd(updated).winner
                          /\ emits[2].gameState.sid = games[l.code].sid
                          /\ last' = Ended(updated.mode, checkGameEnd(updated).winner)
                          /\ l.code \notin DOMAIN games'
                          /\ l.code \notin DOMAIN gameLoops'
                          /\ LoopsOf(l.code, loops') = {}
                     ELSE /\ Len(emits) = 1
                          /\ games'[l.code] = updated
                          /\ last' = Report("tick", "gameStateUpdate")]_vars

\* the countdown that fires next belongs to a session that has been torn
\* down since
StaleCountdown ==
    /\ countdowns # << >>
    /\ LET cd == Head(countdowns) IN
       ~(cd.code \in DOMAIN games /\ games[cd.code].sid = cd.sid)

\* C32: a session torn down during its countdown receives no further
\* transitions: a firing of its countdown emits no countdown event and
\* registers no tick loop for the room.
C32_NoStaleTransition ==
    [][(StaleCountdown /\ CountdownFire)
          => /\ last' = last
             /\ gameLoops' = gameLoops
             /\ loops' = loops]_vars

\* C33: the firing of a session's countdown that emits count 0 does not make
\* the session playing and does not start the tick loop; that happens one
\* interval later.
C33_HoldAfterZero ==
    [][(CountdownFire /\ ~StaleCountdown /\ Head(countdowns).count = 0)
          => /\ last' = Report("countdown", "count 0")
             /\ games'[Head(countdowns).code].status = "countdown"
             /\ gameLoops' = gameLoops
             /\ loops' = loops]_vars

\* C34: on a racer tick the speed becomes 0.98 times what it was, or 0 when
\* that is not above 0.001, and the position advances by the speed the
\* player is left with, capped one unit past the finish line; so a player
\* whose speed is cut to 0 stays where it is, and no position decreases.
C34_FrictionTick ==
    [][\A l \in loops :
          (/\ TickStep(l, Finish(l))
           /\ ~TickStops(l)
           /\ games[l.code].mode = "voice_racer")
          => LET game == games[l.code]
                 after == updateGame(game)
             IN  \A id \in DOMAIN game.playerPositions :
                    LET slowed == (game.playerSpeeds[id] * 98) \div 100 IN
                    /\ after.playerSpeeds[id] =
                          IF slowed > StopSpeed THEN slowed ELSE 0
                    /\ after.playerPositions[id] =
                          Min(game.playerPositions[id] + after.playerSpeeds[id],
                              trackLength + 1000000)
                    /\ after.playerPositions[id] >= game.playerPositions[id]
                    /\ after.playerSpeeds[id] = 0 =>
                          after.playerPositions[id] = game.playerPositions[id]]_vars

\* C36: an accepted racer action never lowers the speed of the player who
\* acts, whatever the speed and the match score.
C36_NeverSlower ==
    [][\A pid \in { 1, 2 }, m \in Scores :
          (Racing /\ ProcessCommandStep(PlayCode, pid, m))
             => games'[PlayCode].playerSpeeds[pid]
                   >= games[PlayCode].playerSpeeds[pid]]_vars

\* C35: a room never has two countdowns or two tick loops running, and every
\* tick loop that runs is the one registered for its room, the one
\* stopGameLoop cancels.
C35_OneLoopPerRoom ==
    \A roomCode \in AllCodes :
        /\ Cardinality(LoopsOf(roomCode, loops)) <= 1
        /\ Cardinality({ i \in DOMAIN countdowns :
                            countdowns[i].code = roomCode }) <= 1
        /\ \A l \in LoopsOf(roomCode, loops) :
              roomCode \in DOMAIN gameLoops /\ gameLoops[roomCode] = l.lid

\* C37: once the rope of a playing tug of war is at or past a threshold, no
\* pull that arrives before the next tick brings it back inside: the win of
\* that side stands.
C37_WinStands ==
    [][\A pid \in { 1, 2 }, m \in Scores :
          (Tugging /\ ProcessCommandStep(PlayCode, pid, m))
             => /\ games[PlayCode].ropePosition <= 0 - RopeWin
                      => games'[PlayCode].ropePosition <= 0 - RopeWin
                /\ games[PlayCode].ropePosition >= RopeWin
                      => games'[PlayCode].ropePosition >= RopeWin]_vars

\* the number of 'gameEnd' events emitted so far for session sid
EndsOf(sid) == IF sid \in DOMAIN gameEnds THEN gameEnds[sid] ELSE 0

\* whether session sid is still held by the GameManager
LiveSession(sid) == \E code \in DOMAIN games : games[code].sid = sid

\* C38: every session created so far is either still held by the GameManager
\* with no gameEnd event emitted for it yet, or gone with exactly one gameEnd
\* event emitted for it (by the terminating tick, by returnToLobby or by the
\* createGame of the next startGame); and no gameEnd event was ever emitted
\* for a room that had no session at that moment.
C38_OneGameEnded ==
    /\ \A sid \in 1..(ids.session - 1) :
          EndsOf(sid) = (IF LiveSession(sid) THEN 0 ELSE 1)
    /\ DOMAIN gameEnds \subseteq 1..(ids.session - 1)

\* C38 case: a room whose first session was ended once and which holds a
\* later session that has not ended, next to a session of another room or
\* of the same room that ended too
C38_Witness ==
    /\ ids.session > 2
    /\ \E code \in DOMAIN games :
          /\ games[code].sid > 1
          /\ EndsOf(games[code].sid) = 0
          /\ EndsOf(1) = 1

\* the entry of player pid in the rooms rs (pid is in one of them)
PlayerIn(rs, pid) ==
    LET c == CHOOSE c \in DOMAIN rs : pid \in PlayerIdsOf(rs[c])
    IN  rs[c].players[IndexOfId(rs[c].players, pid)]

\* C39: when a socket leaves its room or disconnects, every player whose
\* last joinRoom or reconnectPlayer came from another socket keeps its
\* connected flag, is not the player reported as having left and has no
\* transcription session ended; and a player's connected flag goes from
\* true to false only in a leaveRoom or disconnect of the socket the player
\* is bound to.
C39_OldSocketLeaves ==
    [][ /\ \A conn \in Conns \cup Callers :
              (Disconnect(conn) \/ LeaveRoom(conn)) =>
                 \A pid \in DOMAIN boundTo :
                    boundTo[pid] # conn =>
                       /\ PlayerIn(rooms', pid).connected = PlayerIn(rooms, pid).connected
                       /\ ~(leaveRoom(conn).result = "player"
                             /\ leaveRoom(conn).playerId = pid)
                       /\ pid \in closing' => pid \in closing
        /\ \A pid \in DOMAIN boundTo \cap DOMAIN boundTo' :
              (PlayerIn(rooms, pid).connected /\ ~PlayerIn(rooms', pid).connected) =>
                 \/ Disconnect(boundTo[pid])
                 \/ LeaveRoom(boundTo[pid])
      ]_vars

\* C39 case: socket 2, the only socket that joins, has dropped after
\* socket 3 took over one of its players; nothing was reported for the drop
\* and the player is still connected on socket 3
C39_Witness ==
    /\ closed = {2}
    /\ last = Report("disconnect", "none")
    /\ \E pid \in DOMAIN boundTo :
          /\ boundTo[pid] = 3
          /\ PlayerIn(rooms, pid).connected
          /\ PlayerIn(rooms, pid).socketId = 3
          /\ pid \in DOMAIN sessions
          /\ pid \notin closing

\* whether a delayed start set up for this room object is still pending
StartPending(code) ==
    \E i \in DOMAIN readyTimers :
        /\ readyTimers[i].code = code
        /\ readyTimers[i].rid = rooms[code].rid

\* C40: a room in status preparing with at least one player, every one of
\* them ready, has a delayed start pending, so that its session enters the
\* countdown with no further client event; in particular after removePlayer
\* has taken the last unready player out.
C40_ReadyRoomStarts ==
    \A code \in DOMAIN rooms :
        ( /\ rooms[code].gameState = "preparing"
          /\ Len(rooms[code].players) > 0
          /\ AllReady(rooms[code]) ) => StartPending(code)

====
